---- MODULE Spec2Model ----
(***************************************************************************)
(* A model of runtool's configuration expansion engine:                   *)
(*   runtool/utils.py            get_item_from_path, update_nested_dict    *)
(*   runtool/recurse_config.py   Versions, recursive_apply                 *)
(*   runtool/transformations.py  apply_from, apply_ref, apply_eval,        *)
(*                               apply_each                                *)
(*   runtool/transformer.py      apply_transformations                     *)
(*   runtool/datatypes.py        Node, ListNode and their subclasses       *)
(*   runtool/runtool.py          infer_type, generate_versions,            *)
(*                               transform_config                          *)
(*                                                                         *)
(* Python values are tagged records [t, v]:                                *)
(*   "int"   v = the integer                                               *)
(*   "str"   v = the string split at its dots (what str.split(".") gives)  *)
(*   "txt"   v = a string holding an expression: its "+"-separated terms   *)
(*   "chars" v = a string as its characters                                *)
(*   "list"  v = the elements                                              *)
(*   "dict"  v = the items [k, n] in insertion order                       *)
(*   "vers"  v = the entries of a Versions object                          *)
(*   "Algorithm", "Dataset", "Experiment"     v = the items of the object  *)
(*   "Algorithms", "Datasets", "Experiments"  v = its elements             *)
(*   "err"   v = the name of the exception that was raised                 *)
(***************************************************************************)
EXTENDS Integers, Sequences, FiniteSets, TLC

VARIABLES
    input,  \* the argument of the call: the document as it was when
            \* apply_transformations was called, the operands of an operation
    doc,    \* the caller's document object, as it is now; the number of
            \* operations applied, in the specification of the algebra
    data,   \* the local variable `data` of apply_transformations; the value
            \* a call returned
    pc,     \* the next line of apply_transformations, "done" or "failed";
            \* the call that was made
    err     \* the exception that left the call, if any

vars == <<input, doc, data, pc, err>>

----------------------------------------------------------------------------
(* Values *)

IntV(n) == [t |-> "int", v |-> n]

StrV(segs) == [t |-> "str", v |-> segs]

TxtV(terms) == [t |-> "txt", v |-> terms]

ListV(elems) == [t |-> "list", v |-> elems]

DictV(items) == [t |-> "dict", v |-> items]

VersionsV(versions) == [t |-> "vers", v |-> versions]

Raise(name) == [t |-> "err", v |-> name]

KV(key, node) == [k |-> key, n |-> node]

IsInt(x) == x.t = "int"

IsStr(x) == x.t = "str" \/ x.t = "txt"

IsList(x) == x.t = "list"

IsDict(x) == x.t = "dict"

IsVersions(x) == x.t = "vers"

IsErr(x) == x.t = "err"

NoneMarker == StrV(<<"$None">>)

\* the items of a dict, or nothing for any other value
Items(x) == IF IsDict(x) THEN x.v ELSE <<>>

Keys(d) == {d.v[i].k : i \in 1..Len(d.v)}

\* "key in d" for a dict d
HasKey(d, key) == \E i \in 1..Len(d.v) : d.v[i].k = key

KeyIndex(d, key) == CHOOSE i \in 1..Len(d.v) : d.v[i].k = key

\* d[key] for a key that d has
Lookup(d, key) == d.v[KeyIndex(d, key)].n

\* d[key] = node : an existing key keeps its place, a new key goes last
DictSet(d, key, node) ==
    IF HasKey(d, key)
    THEN DictV([d.v EXCEPT ![KeyIndex(d, key)] = KV(key, node)])
    ELSE DictV(Append(d.v, KV(key, node)))

\* d.pop(key), as far as d is concerned
DictDel(d, key) == DictV(SelectSeq(d.v, LAMBDA it : it.k # key))

\* int(key) for the keys that are decimal numerals; -1 stands for ValueError
ParseInt(key) ==
    CASE key = "0" -> 0
      [] key = "1" -> 1
      [] key = "2" -> 2
      [] key = "3" -> 3
      [] OTHER -> -1

\* the characters of the one-segment strings the documents use
Chars(segs) ==
    CASE segs = <<"x">> -> <<"x">>
      [] segs = <<"y">> -> <<"y">>
      [] segs = <<"$None">> -> <<"$", "N", "o", "n", "e">>
      [] OTHER -> segs

----------------------------------------------------------------------------
(* utils.py *)

\* one step of get_item_from_path: data[key], and on TypeError data[int(key)]
GetItem(tmp, key) ==
    CASE IsDict(tmp) ->
           IF HasKey(tmp, key) THEN Lookup(tmp, key) ELSE Raise("KeyError")
      [] IsList(tmp) ->
           IF ParseInt(key) < 0 THEN Raise("ValueError")
           ELSE IF ParseInt(key) >= Len(tmp.v) THEN Raise("IndexError")
           ELSE tmp.v[ParseInt(key) + 1]
      [] IsStr(tmp) ->
           IF ParseInt(key) < 0 THEN Raise("ValueError")
           ELSE IF ParseInt(key) >= Len(Chars(tmp.v)) THEN Raise("IndexError")
           ELSE StrV(<<Chars(tmp.v)[ParseInt(key) + 1]>>)
      [] OTHER ->
           IF ParseInt(key) < 0 THEN Raise("ValueError") ELSE Raise("TypeError")

RECURSIVE GetPath(_, _, _)
GetPath(tmp, segs, i) ==
    IF i > Len(segs) \/ IsErr(tmp) THEN tmp
    ELSE GetPath(GetItem(tmp, segs[i]), segs, i + 1)

\* get_item_from_path(data, path); a path that is no string has no split()
get_item_from_path(tree, path) ==
    IF path.t # "str" THEN Raise("AttributeError") ELSE GetPath(tree, path.v, 1)

RECURSIVE update_nested_dict(_, _)
RECURSIVE UpdateFrom(_, _, _)
\* the loop of update_nested_dict from item i of to_update on
UpdateFrom(tree, items, i) ==
    IF i > Len(items) THEN tree
    ELSE LET key == items[i].k
             value == items[i].n
         IN IF IsDict(tree)
            THEN IF IsDict(value)
                 THEN UpdateFrom(
                        DictSet(tree, key,
                                update_nested_dict(
                                    IF HasKey(tree, key) THEN Lookup(tree, key)
                                    ELSE DictV(<<>>),
                                    value)),
                        items, i + 1)
                 ELSE UpdateFrom(DictSet(tree, key, value), items, i + 1)
            ELSE UpdateFrom(DictV(<<KV(key, value)>>), items, i + 1)

update_nested_dict(tree, to_update) == UpdateFrom(tree, to_update.v, 1)

----------------------------------------------------------------------------
(* Calls return the value and the object passed as context / locals, which
   apply_eval can change: [res, L].  An alias [on, p] says whether a node is
   the very object found at path p of L or a fresh object.                 *)

R(res, L) == [res |-> res, L |-> L]

NoAlias == [on |-> FALSE, p |-> <<>>]

AliasAt(path) == [on |-> TRUE, p |-> path]

SubAlias(at, key) == [on |-> at.on, p |-> IF at.on THEN Append(at.p, key) ELSE <<>>]

\* the key a list index has in a path
IndexKey(i) ==
    CASE i = 0 -> "0"
      [] i = 1 -> "1"
      [] i = 2 -> "2"
      [] OTHER -> "3"

\* None, the filler of child_normal
NoneV == [t |-> "none", v |-> 0]

RECURSIVE SetAt(_, _, _, _)
\* L with the value at path[i..] replaced
SetAt(tree, path, i, value) ==
    IF i > Len(path) THEN value
    ELSE IF IsDict(tree)
         THEN DictSet(tree, path[i],
                      SetAt(Lookup(tree, path[i]), path, i + 1, value))
         ELSE ListV([tree.v EXCEPT ![ParseInt(path[i]) + 1] =
                        SetAt(tree.v[ParseInt(path[i]) + 1], path, i + 1, value)])

RECURSIVE Flatten(_)
Flatten(seqs) == IF seqs = <<>> THEN <<>> ELSE Head(seqs) \o Flatten(Tail(seqs))

RECURSIVE ProductFirstFastest(_)
\* a product whose first list varies fastest
ProductFirstFastest(lists) ==
    IF lists = <<>> THEN << <<>> >>
    ELSE LET rest == ProductFirstFastest(Tail(lists))
         IN Flatten([j \in 1..Len(rest) |->
                       [i \in 1..Len(Head(lists)) |-> <<Head(lists)[i]>> \o rest[j]]])

RECURSIVE Product(_)
\* itertools.product(*lists): the last list varies fastest
Product(lists) ==
    IF lists = <<>> THEN << <<>> >>
    ELSE LET rest == Product(Tail(lists))
         IN Flatten([i \in 1..Len(Head(lists)) |->
                       [j \in 1..Len(rest) |-> <<Head(lists)[i]>> \o rest[j]]])

----------------------------------------------------------------------------
(* transformations.py: apply_each.  It changes the dicts it is given
   (node.pop, item.update), and recursive_apply hands the same item objects
   to several calls, so in this pass dicts are objects: a heap H = the dicts
   allocated so far, and values [t |-> "obj", v |-> address] that refer to
   them.                                                                   *)

EmptyHeap == [t |-> "heap", v |-> <<>>]

IsObj(x) == x.t = "obj"

ObjV(address) == [t |-> "obj", v |-> address]

\* a new dict object
Alloc(H, d) == R(ObjV(Len(H.v) + 1), [t |-> "heap", v |-> Append(H.v, d)])

Store(H, obj, d) == [t |-> "heap", v |-> [H.v EXCEPT ![obj.v] = d]]

RECURSIVE Deref(_, _)
\* the plain value a value of the heap stands for
Deref(x, H) ==
    CASE IsObj(x) -> Deref(H.v[x.v], H)
      [] IsDict(x) -> DictV([i \in 1..Len(x.v) |-> KV(x.v[i].k, Deref(x.v[i].n, H))])
      [] IsList(x) -> ListV([i \in 1..Len(x.v) |-> Deref(x.v[i], H)])
      [] IsVersions(x) -> VersionsV([i \in 1..Len(x.v) |-> Deref(x.v[i], H)])
      [] OTHER -> x

\* an update that leaves the keys the item already has
DictUpdateItemWins(item, node) ==
    LET RECURSIVE Upd(_, _)
        Upd(d, i) == IF i > Len(node.v) THEN d
                     ELSE IF HasKey(d, node.v[i].k) THEN Upd(d, i + 1)
                     ELSE Upd(DictSet(d, node.v[i].k, node.v[i].n), i + 1)
    IN Upd(item, 1)

\* item.update(node)
DictUpdate(item, node) ==
    LET RECURSIVE Upd(_, _)
        Upd(d, i) == IF i > Len(node.v) THEN d
                     ELSE Upd(DictSet(d, node.v[i].k, node.v[i].n), i + 1)
    IN Upd(item, 1)

RECURSIVE EachVersions(_, _, _, _, _)
\* the loop over the items of $each; node has lost its $each key
EachVersions(node, each, i, versions, H) ==
    IF i > Len(each) THEN R(VersionsV(versions), H)
    ELSE LET item == each[i]
         IN IF item = NoneMarker
            THEN EachVersions(node, each, i + 1, Append(versions, node), H)
            ELSE IF IsObj(item)
            THEN EachVersions(node, each, i + 1, Append(versions, item),
                              Store(H, item, DictUpdate(H.v[item.v], H.v[node.v])))
            ELSE IF H.v[node.v].v # <<>>
            THEN R(Raise("TypeError"),
                   Store(H, node, DictSet(H.v[node.v], "$each", ListV(each))))
            ELSE EachVersions(node, each, i + 1, Append(versions, item), H)

\* apply_each(node) for a node of the heap
apply_each(node, H) ==
    IF ~(IsObj(node) /\ HasKey(H.v[node.v], "$each")) THEN R(node, H)
    ELSE LET each == Lookup(H.v[node.v], "$each")
             popped == Store(H, node, DictDel(H.v[node.v], "$each"))
         IN IF ~IsList(each) THEN R(Raise("TypeError"), popped)
            ELSE EachVersions(node, each.v, 1, <<>>, popped)

----------------------------------------------------------------------------
(* The text of a $eval: terms joined by "+".  A term [k, s, p, a, x]:
     "name"       the identifier s
     "dollar"     $.p[1].p[2]...          "trial"   $trial.p[1]...
     "__trial__"  __trial__.p[1]...
     "repr"       str(x[1]) for a value x[1] that is no string
     "quoted"     'x[1]' for a string x[1]
     "paren"      (x), x the terms of another text
     "garbage"    what is left of $.name once "$." alone was replaced
   each followed by the attribute accesses .a[1].a[2]...                   *)

Term(k, s, p, a, x) == [k |-> k, s |-> s, p |-> p, a |-> a, x |-> x]

Num(n) == Term("repr", "", <<>>, <<>>, <<IntV(n)>>)

Name(s) == Term("name", s, <<>>, <<>>, <<>>)

Dollar(p) == Term("dollar", "", p, <<>>, <<>>)

Trial(p) == Term("trial", "", p, <<>>, <<>>)

PyTrial(p) == Term("__trial__", "", p, <<>>, <<>>)

Garbage == Term("garbage", "", <<>>, <<>>, <<>>)

\* str(node["$eval"]) as terms
ToText(value) ==
    CASE value.t = "txt" -> value.v
      [] value.t = "str" -> <<Term("name", value.v[1], <<>>, Tail(value.v), <<>>)>>
      [] OTHER -> <<Term("repr", "", <<>>, <<>>, <<value>>)>>

\* text.replace("$trial", "__trial__")
RenameTrial(text) ==
    [i \in 1..Len(text) |->
        IF text[i].k = "trial" THEN PyTrial(text[i].p) ELSE text[i]]

IsPrefix(cp, p) == Len(cp) <= Len(p) /\ SubSeq(p, 1, Len(cp)) = cp

\* what "$." + cp becomes for a resolved value, followed by the rest of the path
Substituted(value, rest) ==
    IF IsDict(value) /\ HasKey(value, "$eval")
    THEN Term("paren", "", <<>>, rest, ToText(Lookup(value, "$eval")))
    ELSE IF IsStr(value) THEN Term("quoted", "", <<>>, rest, <<value>>)
    ELSE Term("repr", "", <<>>, rest, <<value>>)

RECURSIVE HasQuote(_)
RECURSIVE ValueHasQuote(_)
\* whether the text holds a quote character
HasQuote(text) ==
    \E i \in 1..Len(text) :
        \/ text[i].k = "quoted"
        \/ text[i].k = "repr" /\ ValueHasQuote(text[i].x[1])
        \/ text[i].k = "paren" /\ HasQuote(text[i].x)

\* whether str(value) holds a quote character
ValueHasQuote(value) ==
    CASE IsStr(value) -> TRUE
      [] IsDict(value) -> value.v # <<>>
      [] IsList(value) -> \E i \in 1..Len(value.v) : ValueHasQuote(value.v[i])
      [] OTHER -> FALSE

RECURSIVE Mentions(_, _)
\* whether "$." + ".".join(cp) occurs in the text
Mentions(text, cp) ==
    \E i \in 1..Len(text) :
        \/ text[i].k = "dollar" /\ IsPrefix(cp, text[i].p)
        \/ text[i].k = "paren" /\ Mentions(text[i].x, cp)

RECURSIVE Replace(_, _, _)
RECURSIVE ReplaceInValue(_, _, _)
\* text.replace("$." + ".".join(cp), ...): every occurrence is replaced, also
\* where a longer path starts with cp and inside what was substituted before
Replace(text, cp, value) ==
    [i \in 1..Len(text) |->
        CASE text[i].k = "dollar" /\ IsPrefix(cp, text[i].p) ->
               IF cp = <<>> THEN Garbage
               ELSE Substituted(value, SubSeq(text[i].p, Len(cp) + 1, Len(text[i].p)))
          [] text[i].k = "paren" ->
               [text[i] EXCEPT !.x = Replace(text[i].x, cp, value)]
          [] text[i].k = "repr" ->
               LET inner == ReplaceInValue(text[i].x[1], cp, value)
               IN IF IsErr(inner) THEN Garbage ELSE [text[i] EXCEPT !.x = <<inner>>]
          [] OTHER -> text[i]]

\* the same replacement inside str(v), where a text is a string literal: a
\* replacement with quotes in it ends a literal that had none
ReplaceInValue(v, cp, value) ==
    CASE v.t = "txt" ->
           IF Mentions(v.v, cp) /\ ~HasQuote(v.v)
              /\ (cp = <<>> \/ HasQuote(<<Substituted(value, <<>>)>>))
           THEN Raise("SyntaxError")
           ELSE TxtV(Replace(v.v, cp, value))
      [] IsList(v) ->
           LET elems == [i \in 1..Len(v.v) |-> ReplaceInValue(v.v[i], cp, value)]
           IN IF \E i \in 1..Len(elems) : IsErr(elems[i]) THEN Raise("SyntaxError")
              ELSE ListV(elems)
      [] IsDict(v) ->
           LET items == [i \in 1..Len(v.v) |->
                           KV(v.v[i].k, ReplaceInValue(v.v[i].n, cp, value))]
           IN IF \E i \in 1..Len(items) : IsErr(items[i].n) THEN Raise("SyntaxError")
              ELSE DictV(items)
      [] OTHER -> v

RECURSIVE SyntaxBad(_)
\* whether compile() rejects the text
SyntaxBad(text) ==
    \/ text = <<>>
    \/ \E i \in 1..Len(text) :
          \/ text[i].k \in {"garbage", "dollar", "trial"}
          \/ text[i].k = "repr" /\ IsInt(text[i].x[1]) /\ text[i].a # <<>>
          \/ text[i].k = "paren" /\ SyntaxBad(text[i].x)

\* x + y
Add(x, y) ==
    CASE IsInt(x) /\ IsInt(y) -> IntV(x.v + y.v)
      [] x.t = "str" /\ y.t = "str" ->
           StrV(SubSeq(x.v, 1, Len(x.v) - 1)
                \o <<x.v[Len(x.v)] \o y.v[1]>> \o Tail(y.v))
      [] IsList(x) /\ IsList(y) -> ListV(x.v \o y.v)
      [] OTHER -> Raise("TypeError")

RECURSIVE GetAttrs(_, _, _)
\* value.a[i].a[i+1]... : a DotDict looks its attributes up as keys
GetAttrs(value, a, i) ==
    IF i > Len(a) \/ IsErr(value) THEN value
    ELSE IF ~IsDict(value) THEN Raise("AttributeError")
    ELSE IF ~HasKey(value, a[i]) THEN Raise("KeyError")
    ELSE GetAttrs(Lookup(value, a[i]), a, i + 1)

RECURSIVE EvalSum(_, _, _, _)
RECURSIVE EvalTerm(_, _)
\* one term, with the names of locals = dict(DotDict(L)) at hand
EvalTerm(term, L) ==
    CASE term.k = "name" ->
           IF IsDict(L) /\ HasKey(L, term.s)
           THEN GetAttrs(Lookup(L, term.s), term.a, 1)
           ELSE Raise("NameError")
      [] term.k = "__trial__" ->
           IF IsDict(L) /\ HasKey(L, "__trial__")
           THEN GetAttrs(Lookup(L, "__trial__"), term.p, 1)
           ELSE Raise("NameError(__trial__)")
      [] term.k = "paren" ->
           LET inner == EvalSum(term.x, 2, EvalTerm(term.x[1], L), L)
           IN IF IsErr(inner) \/ term.a = <<>> THEN inner
              ELSE Raise("AttributeError")
      [] OTHER ->
           IF term.a = <<>> THEN term.x[1] ELSE Raise("AttributeError")

\* t1 + t2 + ... from left to right: acc is the value of the terms before i
EvalSum(text, i, acc, L) ==
    IF i > Len(text) \/ IsErr(acc) THEN acc
    ELSE LET value == EvalTerm(text[i], L)
         IN IF IsErr(value) THEN value
            ELSE EvalSum(text, i + 1, Add(acc, value), L)

\* evaluate(expression, locals): eval() compiles, then runs
evaluate(text, L) ==
    IF SyntaxBad(text) THEN Raise("SyntaxError")
    ELSE EvalSum(text, 2, EvalTerm(text[1], L), L)

----------------------------------------------------------------------------
(* recurse_config.py: recursive_apply; transformations.py: apply_from,
   apply_ref, recurse_eval, apply_eval *)

RECURSIVE recursive_apply(_, _, _, _, _)
RECURSIVE recursive_apply_dict(_, _, _, _, _)
RECURSIVE recursive_apply_list(_, _, _, _, _)
RECURSIVE DictChildren(_, _, _, _, _, _, _, _)
RECURSIVE ListChildren(_, _, _, _, _, _, _, _)
RECURSIVE ApplyToVersions(_, _, _, _, _, _, _, _)
RECURSIVE apply_fn(_, _, _, _)
RECURSIVE apply_eval(_, _, _, _)
RECURSIVE recurse_eval(_, _, _)
RECURSIVE SubstituteMatches(_, _, _, _, _)
RECURSIVE apply_from(_, _, _)
RECURSIVE apply_ref(_, _, _)

\* the value recursive_apply reads for a child: through the object when the
\* node is part of L, which fn may have changed meanwhile
ChildOf(value, L, at) == IF at.on THEN GetPath(L, at.p, 1) ELSE value

\* the loop over node.items(): children that became Versions go to exp
\* (expanded_children), the others to new (new_node)
DictChildren(node, i, fn, L, at, fuel, exp, new) ==
    IF i > Len(node.v) THEN R([t |-> "kids", exp |-> exp, new |-> new], L)
    ELSE LET key == node.v[i].k
             Child(r) ==
                 IF IsErr(r.res) THEN r
                 ELSE IF IsVersions(r.res)
                 THEN DictChildren(node, i + 1, fn, r.L, at, fuel,
                                   Append(exp, [k |-> key, vs |-> r.res.v]), new)
                 ELSE DictChildren(node, i + 1, fn, r.L, at, fuel,
                                   exp, Append(new, KV(key, r.res)))
         IN Child(recursive_apply(ChildOf(node.v[i].n, L, SubAlias(at, key)),
                                  fn, L, SubAlias(at, key), fuel))

\* fn on dict(version_of_node, **new_node) for every version, in order
ApplyToVersions(combos, j, exp, new, fn, L, fuel, done) ==
    IF j > Len(combos) THEN R(ListV(done), L)
    ELSE LET version == [i \in 1..Len(exp) |-> KV(exp[i].k, combos[j][i])]
             Applied(r) ==
                 IF IsErr(r.res) THEN r
                 ELSE ApplyToVersions(combos, j + 1, exp, new, fn, r.L, fuel,
                                      Append(done, r.res))
         IN Applied(apply_fn(fn, DictV(version \o new), L, fuel))

\* Versions(list(*itertools.product(*new_node))): list() takes one argument
FlattenVersions(new_node) ==
    LET prod == Product([i \in 1..Len(new_node) |-> new_node[i].v])
    IN IF Len(prod) = 0 THEN VersionsV(<<>>)
       ELSE IF Len(prod) = 1 THEN VersionsV(prod[1])
       ELSE Raise("TypeError")

recursive_apply_dict(node, fn, L, at, fuel) ==
    LET Versioned(a) ==
            IF IsErr(a.res) THEN a
            ELSE IF \A i \in 1..Len(a.res.v) : IsVersions(a.res.v[i])
            THEN R(FlattenVersions(a.res.v), a.L)
            ELSE R(VersionsV(a.res.v), a.L)
        Expanded(exp, new, L1) ==
            Versioned(ApplyToVersions(Product([i \in 1..Len(exp) |-> exp[i].vs]),
                                      1, exp, new, fn, L1, fuel, <<>>))
        Children(c) ==
            IF IsErr(c.res) THEN c
            ELSE IF c.res.exp # <<>> THEN Expanded(c.res.exp, c.res.new, c.L)
            ELSE apply_fn(fn, DictV(c.res.new), c.L, fuel)
    IN Children(DictChildren(node, 1, fn, L, at, fuel, <<>>, <<>>))

\* the loop over enumerate(node)
ListChildren(node, i, fn, L, at, fuel, exp, normal) ==
    IF i > Len(node.v) THEN R([t |-> "kids", exp |-> exp, new |-> normal], L)
    ELSE LET key == IndexKey(i - 1)
             Child(r) ==
                 IF IsErr(r.res) THEN r
                 ELSE IF IsVersions(r.res)
                 THEN ListChildren(node, i + 1, fn, r.L, at, fuel,
                                   Append(exp, [k |-> i, vs |-> r.res.v]),
                                   Append(normal, NoneV))
                 ELSE ListChildren(node, i + 1, fn, r.L, at, fuel,
                                   exp, Append(normal, r.res))
         IN Child(recursive_apply(ChildOf(node.v[i], L, SubAlias(at, key)),
                                  fn, L, SubAlias(at, key), fuel))

\* recursive_apply_list that never fills child_normal
recursive_apply_list_unfilled(node, fn, L, at, fuel) ==
    LET NewData(version, exp, normal) ==
            [i \in 1..Len(normal) |->
                IF \E e \in 1..Len(exp) : exp[e].k = i
                THEN version[CHOOSE e \in 1..Len(exp) : exp[e].k = i]
                ELSE NoneV]
        Expanded(combos, exp, normal) ==
            VersionsV([j \in 1..Len(combos) |-> ListV(NewData(combos[j], exp, normal))])
        Children(c) ==
            IF IsErr(c.res) THEN c
            ELSE IF c.res.exp = <<>>
            THEN R(ListV([i \in 1..Len(c.res.new) |-> NoneV]), c.L)
            ELSE R(Expanded(Product([i \in 1..Len(c.res.exp) |-> c.res.exp[i].vs]),
                            c.res.exp, c.res.new),
                   c.L)
    IN Children(ListChildren(node, 1, fn, L, at, fuel, <<>>, <<>>))

recursive_apply_list(node, fn, L, at, fuel) ==
    LET NewData(version, exp, normal) ==
            [i \in 1..Len(normal) |->
                IF \E e \in 1..Len(exp) : exp[e].k = i
                THEN version[CHOOSE e \in 1..Len(exp) : exp[e].k = i]
                ELSE normal[i]]
        Expanded(combos, exp, normal) ==
            VersionsV([j \in 1..Len(combos) |-> ListV(NewData(combos[j], exp, normal))])
        Children(c) ==
            IF IsErr(c.res) THEN c
            ELSE IF c.res.exp = <<>> THEN R(ListV(c.res.new), c.L)
            ELSE R(Expanded(Product([i \in 1..Len(c.res.exp) |-> c.res.exp[i].vs]),
                            c.res.exp, c.res.new),
                   c.L)
    IN Children(ListChildren(node, 1, fn, L, at, fuel, <<>>, <<>>))

recursive_apply(node, fn, L, at, fuel) ==
    CASE IsDict(node) -> recursive_apply_dict(node, fn, L, at, fuel)
      [] IsList(node) -> recursive_apply_list(node, fn, L, at, fuel)
      [] OTHER -> R(node, L)

\* apply_from without node.pop("$from"): the key is merged like any other
apply_from_keeping_key(node, context, fuel) ==
    IF ~(IsDict(node) /\ HasKey(node, "$from")) THEN R(node, context)
    ELSE IF fuel = 0 THEN R(Raise("RecursionError"), context)
    ELSE LET Inherited(source) ==
                 IF IsErr(source.res) THEN source
                 ELSE IF ~IsDict(source.res) THEN R(Raise("AssertionError"), source.L)
                 ELSE R(update_nested_dict(source.res, node), source.L)
             Found(found) ==
                 IF IsErr(found) THEN R(found, context)
                 ELSE Inherited(recursive_apply(found, "from", context, NoAlias,
                                                fuel - 1))
         IN Found(get_item_from_path(context, Lookup(node, "$from")))

apply_from(node, context, fuel) ==
    IF ~(IsDict(node) /\ HasKey(node, "$from")) THEN R(node, context)
    ELSE IF fuel = 0 THEN R(Raise("RecursionError"), context)
    ELSE LET Inherited(source) ==
                 IF IsErr(source.res) THEN source
                 ELSE IF ~IsDict(source.res) THEN R(Raise("AssertionError"), source.L)
                 ELSE R(update_nested_dict(source.res, DictDel(node, "$from")),
                        source.L)
             Found(found) ==
                 IF IsErr(found) THEN R(found, context)
                 ELSE Inherited(recursive_apply(found, "from", context, NoAlias,
                                                fuel - 1))
         IN Found(get_item_from_path(context, Lookup(node, "$from")))

\* apply_ref that returns what the path names as it finds it
apply_ref_one_step(node, context, fuel) ==
    IF ~(IsDict(node) /\ HasKey(node, "$ref")) THEN R(node, context)
    ELSE IF Len(node.v) # 1 THEN R(Raise("AssertionError"), context)
    ELSE R(get_item_from_path(context, Lookup(node, "$ref")), context)

apply_ref(node, context, fuel) ==
    IF ~(IsDict(node) /\ HasKey(node, "$ref")) THEN R(node, context)
    ELSE IF Len(node.v) # 1 THEN R(Raise("AssertionError"), context)
    ELSE IF fuel = 0 THEN R(Raise("RecursionError"), context)
    ELSE LET Found(found) ==
                 IF IsErr(found) THEN R(found, context)
                 ELSE recursive_apply(found, "ref", context, NoAlias, fuel - 1)
         IN Found(get_item_from_path(context, Lookup(node, "$ref")))

\* recurse_eval(path, data, fn = apply_eval): follows the keys of the path as
\* far as they lead, res = [cp, value] with cp the keys that were followed
recurse_eval(path, L, fuel) ==
    LET RECURSIVE Walk(_, _, _)
        Walk(tmp, i, cp) ==
            IF i > Len(path) THEN [t |-> "at", cp |-> cp, tmp |-> tmp]
            ELSE LET Item(g) ==
                         IF ~IsErr(g) THEN Walk(g, i + 1, Append(cp, path[i]))
                         ELSE IF g.v \in {"KeyError", "ValueError"}
                         THEN [t |-> "at", cp |-> cp, tmp |-> tmp]
                         ELSE g
                 IN Item(GetItem(tmp, path[i]))
        Evaluated(cp, r) ==
            IF IsErr(r.res) THEN r
            ELSE R([t |-> "found", cp |-> cp, value |-> r.res], r.L)
        Walked(w) ==
            IF IsErr(w) THEN R(w, L)
            ELSE Evaluated(w.cp, apply_eval(w.tmp, L, AliasAt(w.cp), fuel))
    IN Walked(Walk(L, 1, <<>>))

\* the loop over re.finditer(regex, text): the matches are those of the text
\* as it was before the loop (orig), the replacements act on the current text
SubstituteMatches(orig, m, text, L, fuel) ==
    IF m > Len(orig) THEN R(TxtV(text), L)
    ELSE IF orig[m].k # "dollar" THEN SubstituteMatches(orig, m + 1, text, L, fuel)
    ELSE LET Resolved(r) ==
                 IF IsErr(r.res) THEN r
                 ELSE SubstituteMatches(orig, m + 1,
                                        Replace(text, r.res.cp, r.res.value),
                                        r.L, fuel)
         IN Resolved(recurse_eval(orig[m].p, L, fuel))

apply_eval(node, L, at, fuel) ==
    IF ~(IsDict(node) /\ HasKey(node, "$eval")) THEN R(node, L)
    ELSE IF Len(node.v) # 1 THEN R(Raise("AssertionError"), L)
    ELSE IF fuel = 0 THEN R(Raise("RecursionError"), L)
    ELSE LET Evaluated(value, text, L1) ==
                 IF IsErr(value)
                 THEN IF value.v = "NameError(__trial__)"
                      THEN R(DictV(<<KV("$eval", text)>>),
                             IF at.on
                             THEN SetAt(L1, Append(at.p, "$eval"), 1, text)
                             ELSE L1)
                      ELSE R(value, L1)
                 ELSE apply_eval(value, L1, NoAlias, fuel - 1)
             Substitute(sub) ==
                 IF IsErr(sub.res) THEN sub
                 ELSE Evaluated(evaluate(sub.res.v, sub.L), sub.res, sub.L)
             Matches(orig) == Substitute(SubstituteMatches(orig, 1, orig, L, fuel - 1))
         IN Matches(RenameTrial(ToText(Lookup(node, "$eval"))))

\* an fn whose result depends on a value of the node:
\* lambda node: Versions([1, 1]) if node.get("x") == 1 else node
versions_of_one(node) ==
    IF HasKey(node, "x") /\ Lookup(node, "x") = IntV(1)
    THEN VersionsV(<<IntV(1), IntV(1)>>)
    ELSE node

\* the fn recursive_apply is called with; "identity" is lambda x: x
apply_fn(fn, node, L, fuel) ==
    CASE fn = "from" -> apply_from(node, L, fuel)
      [] fn = "eval" -> apply_eval(node, L, NoAlias, fuel)
      [] fn = "each" -> LET Object(o) == apply_each(o.res, o.L)
                        IN Object(Alloc(L, node))
      [] fn = "ref" -> apply_ref(node, L, fuel)
      [] fn = "identity" -> R(node, L)
      [] fn = "versions_of_one" -> R(versions_of_one(node), L)

----------------------------------------------------------------------------
(* Bounds *)

\* nested $from / $ref / $eval resolutions before Python gives up (RecursionError)
MaxDepth == 4

\* the longest $each list of the documents
MaxItems == 2

----------------------------------------------------------------------------
(* The documents apply_transformations is called with *)

RECURSIVE SeqsUpTo(_, _)
\* the sequences over S of length at most n
SeqsUpTo(S, n) ==
    IF n = 0 THEN {<<>>}
    ELSE LET shorter == SeqsUpTo(S, n - 1)
         IN shorter \cup {Append(q, x) : q \in {r \in shorter : Len(r) = n - 1}, x \in S}

D1(k1, n1) == DictV(<<KV(k1, n1)>>)

D2(k1, n1, k2, n2) == DictV(<<KV(k1, n1), KV(k2, n2)>>)

D3(k1, n1, k2, n2, k3, n3) == DictV(<<KV(k1, n1), KV(k2, n2), KV(k3, n3)>>)

Path(segs) == StrV(segs)

Scalars == {IntV(1), IntV(2), StrV(<<"x">>)}

\* what a $each list holds
EachItems == {IntV(1), IntV(2), NoneMarker, D1("x", IntV(3)), D1("k", IntV(4))}

EachLists == {ListV(q) : q \in SeqsUpTo(EachItems, MaxItems)}

PlainEachLists == {ListV(q) : q \in SeqsUpTo({IntV(1), IntV(2)}, MaxItems)}

\* nodes with a $each key, alone or beside a key k
EachNodes ==
    {D1("$each", l) : l \in EachLists \cup {IntV(1)}}
    \cup {D2("k", IntV(1), "$each", l) : l \in EachLists \cup {IntV(1)}}

PlainEachNodes == {D1("$each", l) : l \in PlainEachLists}

\* $each alone, at sibling keys, at list positions, below one another
EachDocs ==
    {D2("a", n, "c", IntV(0)) : n \in EachNodes}
    \cup {D3("a", n1, "c", StrV(<<"x">>), "b", n2) :
             n1 \in PlainEachNodes, n2 \in PlainEachNodes}
    \cup {D2("a", ListV(<<n1, IntV(0), n2>>), "b", D2("k", n3, "x", IntV(5))) :
             n1 \in PlainEachNodes, n2 \in PlainEachNodes,
             n3 \in {IntV(7), D1("$each", ListV(<<IntV(8), IntV(9)>>))}}
    \cup {D1("a", D1("$each", ListV(<<n, IntV(3)>>))) : n \in PlainEachNodes}
    \cup {D1("a", D1("$each", ListV(<<n>>))) : n \in PlainEachNodes}
    \cup {D1("a", D2("$each", l, "k", n)) :
             l \in {ListV(<<IntV(5)>>), ListV(<<D1("x", IntV(3))>>),
                    ListV(<<NoneMarker, D1("x", IntV(3))>>)},
             n \in PlainEachNodes}

\* every order of three items
Orders3(k1, n1, k2, n2, k3, n3) ==
    {D3(k1, n1, k2, n2, k3, n3), D3(k1, n1, k3, n3, k2, n2),
     D3(k2, n2, k1, n1, k3, n3), D3(k2, n2, k3, n3, k1, n1),
     D3(k3, n3, k1, n1, k2, n2), D3(k3, n3, k2, n2, k1, n1)}

Orders2(k1, n1, k2, n2) == {D2(k1, n1, k2, n2), D2(k2, n2, k1, n1)}

\* values without any directive
PlainValues ==
    {IntV(1), IntV(2), DictV(<<>>), D1("a", IntV(1)), D1("b", IntV(2)),
     D1("a", D1("b", IntV(2))), ListV(<<IntV(1)>>)}

PlainDocs ==
    {D1("a", v) : v \in PlainValues \cup Scalars}
    \cup {D2("a", v, "b", w) : v \in PlainValues, w \in PlainValues \cup Scalars}
    \cup {D1("a", ListV(<<v, D1("k", w)>>)) : v \in PlainValues, w \in PlainValues}

\* what a $from can inherit from, and the keys a $from node adds to it
FromBases ==
    {DictV(<<>>)}
    \cup {D1("d", v) : v \in PlainValues}
    \cup {D2("d", v, "new", w) : v \in PlainValues, w \in PlainValues}

FromNode(path, own) == DictV(<<KV("$from", path)>> \o own)

OwnKeys ==
    {<<>>}
    \cup {<<KV("d", v)>> : v \in PlainValues}
    \cup {<<KV("new", v)>> : v \in PlainValues}
    \cup {<<KV("d", IntV(2)), KV("new", v)>> : v \in PlainValues}

SmallBases ==
    {DictV(<<>>), D1("d", IntV(1)), D2("d", IntV(1), "new", D1("a", IntV(1)))}

SmallOwn == {<<>>, <<KV("d", IntV(2))>>, <<KV("new", D1("b", IntV(2)))>>}

FromDocs ==
    {D2("base", b, "n", FromNode(Path(<<"base">>), own)) :
        b \in FromBases, own \in OwnKeys}
    \cup UNION {Orders3("base", b, "i1", FromNode(Path(<<"base">>), o1),
                        "i2", FromNode(Path(<<"i1">>), o2)) :
                   b \in SmallBases, o1 \in SmallOwn, o2 \in SmallOwn}
    \cup {D2("n", FromNode(path, own), "base", b) :
             path \in {Path(<<"base">>), Path(<<"base", "new">>), Path(<<"base", "d">>),
                       Path(<<"zz">>), Path(<<"n">>), IntV(1)},
             own \in SmallOwn, b \in SmallBases}
    \cup {D2("base", b, "n", ListV(<<D1("k", FromNode(Path(<<"base">>), own))>>)) :
             b \in SmallBases, own \in SmallOwn}

Ref(segs) == D1("$ref", Path(segs))

RefValues ==
    {IntV(10), D1("k", IntV(7)), Ref(<<"a">>), Ref(<<"b">>), Ref(<<"c">>),
     Ref(<<"zz">>), Ref(<<"b", "k">>), D2("$ref", Path(<<"c">>), "x", IntV(1)),
     ListV(<<Ref(<<"c">>)>>)}

RefDocs ==
    UNION {Orders3("a", v1, "b", v2, "c", v3) :
              v1 \in RefValues, v2 \in RefValues, v3 \in RefValues}

\* a $ref to a node that holds a $each
RefEachDocs ==
    UNION {Orders2("a", n, "b", r) :
              n \in PlainEachNodes \cup {D2("n", e, "x", IntV(0)) : e \in PlainEachNodes},
              r \in {Ref(<<"a">>), ListV(<<Ref(<<"a">>)>>), Ref(<<"a", "n">>)}}

\* the longest expression of the documents, in terms
MaxTerms == 2

EvalTerms ==
    {Num(1), Name("zz"), Name("a"), Dollar(<<"a">>), Dollar(<<"b">>),
     Dollar(<<"a", "x">>), Dollar(<<"zz">>), Trial(<<"q">>)}

EvalTexts == {TxtV(q) : q \in SeqsUpTo(EvalTerms, MaxTerms) \ {<<>>}}

Eval(text) == D1("$eval", text)

SmallTexts ==
    {TxtV(<<Num(1)>>), TxtV(<<Trial(<<"q">>)>>), TxtV(<<Dollar(<<"a">>), Trial(<<"q">>)>>),
     TxtV(<<Dollar(<<"b">>), Num(1)>>), TxtV(<<Dollar(<<"c">>)>>),
     TxtV(<<Dollar(<<"b">>), Dollar(<<"b">>)>>), TxtV(<<Name("b")>>),
     TxtV(<<Trial(<<"q">>), Dollar(<<"a", "x">>)>>)}

\* texts in which one path is the beginning of another, or leads only part
\* of the way
PrefixTexts ==
    {TxtV(<<Trial(<<"q">>), Dollar(<<"a">>), Dollar(<<"a", "x">>)>>),
     TxtV(<<Trial(<<"q">>), Dollar(<<"a", "x">>), Dollar(<<"a">>)>>),
     TxtV(<<Dollar(<<"a">>), Dollar(<<"a", "x">>), Trial(<<"q">>)>>),
     TxtV(<<Dollar(<<"a", "zz">>)>>),
     TxtV(<<Trial(<<"q">>), Dollar(<<"a", "zz">>)>>),
     TxtV(<<Num(2), Dollar(<<"a", "zz">>)>>)}

EvalDocs ==
    UNION {Orders2("a", v, "b", Eval(text)) :
              v \in {IntV(1), StrV(<<"x">>), D1("x", IntV(1)), ListV(<<IntV(1), IntV(2)>>),
                     D1("k", Eval(IntV(1)))},
              text \in EvalTexts \cup PrefixTexts \cup {IntV(10)}}
    \cup UNION {Orders3("a", v, "b", Eval(t1), "c", w) :
                   v \in {IntV(1), D1("x", IntV(1))},
                   t1 \in SmallTexts,
                   w \in {Eval(t2) : t2 \in SmallTexts}
                         \cup {ListV(<<Eval(t2)>>) : t2 \in SmallTexts}}
    \cup {D2("a", IntV(1), "b", D2("$eval", TxtV(<<Num(1)>>), "x", IntV(1)))}

\* directives of several kinds in one document
MixedDocs ==
    {D3("base", D1("msg", StrV(<<"x">>)),
        "a", DictV(<<KV("$from", Path(<<"base">>)),
                     KV("smth", D1("$each", ListV(<<e1, e2>>)))>>),
        "b", ListV(<<r>>)) :
        e1 \in {Eval(TxtV(<<Num(1), Num(2)>>)), Eval(TxtV(<<Trial(<<"q">>)>>)),
                D1("x", IntV(3)), IntV(1)},
        e2 \in {IntV(2), NoneMarker, Eval(TxtV(<<Dollar(<<"base", "msg">>)>>))},
        r \in {Ref(<<"a", "msg">>), Ref(<<"a", "smth">>), Ref(<<"a">>),
               D1("$from", Path(<<"base">>))}}

Docs == PlainDocs \cup EachDocs \cup FromDocs \cup RefDocs \cup RefEachDocs
        \cup EvalDocs \cup MixedDocs

----------------------------------------------------------------------------
(* transformer.py: apply_transformations, one action per line *)

\* the object line 59 passes as locals if line 58 had not bound `data` anew
EvalLocalsIsArgument == "doc"

\* which object line 59 passes as locals: line 58 has bound `data` to the
\* result of the first pass by then
EvalLocals == "data"

\* line 58, for the caller's object d: [res, L] with L the object afterwards
FromPass(d) == recursive_apply(d, "from", d, AliasAt(<<>>), MaxDepth)

\* line 59, for the result of line 58 and the caller's object
EvalPass(tree, d) ==
    IF EvalLocals = "data"
    THEN R(recursive_apply(tree, "eval", tree, AliasAt(<<>>), MaxDepth).res, d)
    ELSE recursive_apply(tree, "eval", d, NoAlias, MaxDepth)

\* lines 60 and 62: the list of versions, or the error
EachPass(tree) ==
    LET Listed(r) ==
            IF IsErr(r.res) THEN r.res
            ELSE Deref(IF IsVersions(r.res) THEN ListV(r.res.v) ELSE ListV(<<r.res>>),
                       r.L)
    IN Listed(recursive_apply(tree, "each", EmptyHeap, NoAlias, MaxDepth))

RECURSIVE ResolveRefsShared(_, _, _)
\* every item resolved against the first item as context
ResolveRefsShared(items, i, done) ==
    IF i > Len(items) THEN ListV(done)
    ELSE LET Item(r) ==
                 IF IsErr(r.res) THEN r.res
                 ELSE ResolveRefsShared(items, i + 1, Append(done, r.res))
         IN Item(recursive_apply(items[i], "ref", items[1], NoAlias, MaxDepth))

RECURSIVE ResolveRefs(_, _, _)
\* lines 63-66:
\* [recursive_apply(item, partial(apply_ref, context=item)) for item in data]
ResolveRefs(items, i, done) ==
    IF i > Len(items) THEN ListV(done)
    ELSE LET Item(r) ==
                 IF IsErr(r.res) THEN r.res
                 ELSE ResolveRefs(items, i + 1, Append(done, r.res))
         IN Item(recursive_apply(items[i], "ref", items[i], AliasAt(<<>>), MaxDepth))

Fail(name) ==
    /\ pc' = "failed"
    /\ err' = name
    /\ data' = NoneV

Init ==
    /\ input \in Docs
    /\ doc = input
    /\ data = input
    /\ pc = "from"
    /\ err = ""

\* data = recursive_apply(data, partial(apply_from, context=data))
ResolveFrom ==
    /\ pc = "from"
    /\ LET Bind(r) ==
               /\ doc' = r.L
               /\ IF IsErr(r.res) THEN Fail(r.res.v)
                  ELSE /\ data' = r.res
                       /\ pc' = "eval"
                       /\ err' = err
       IN Bind(FromPass(doc))
    /\ UNCHANGED input

\* data = recursive_apply(data, partial(apply_eval, locals=data))
ResolveEval ==
    /\ pc = "eval"
    /\ LET Bind(r) ==
               /\ doc' = r.L
               /\ IF IsErr(r.res) THEN Fail(r.res.v)
                  ELSE /\ data' = r.res
                       /\ pc' = "each"
                       /\ err' = err
       IN Bind(EvalPass(data, doc))
    /\ UNCHANGED input

\* data = recursive_apply(data, apply_each)
\* data = list(data) if isinstance(data, Versions) else [data]
ResolveEach ==
    /\ pc = "each"
    /\ LET Bind(r) ==
               IF IsErr(r) THEN Fail(r.v)
               ELSE /\ data' = r
                    /\ pc' = "ref"
                    /\ err' = err
       IN Bind(EachPass(data))
    /\ UNCHANGED <<input, doc>>

\* data = [recursive_apply(item, partial(apply_ref, context=item)) ...]
ResolveRef ==
    /\ pc = "ref"
    /\ LET Bind(r) ==
               IF IsErr(r) THEN Fail(r.v)
               ELSE /\ data' = r
                    /\ pc' = "done"
                    /\ err' = err
       IN Bind(ResolveRefs(data.v, 1, <<>>))
    /\ UNCHANGED <<input, doc>>

Next == ResolveFrom \/ ResolveEval \/ ResolveEach \/ ResolveRef

Spec == Init /\ [][Next]_vars

----------------------------------------------------------------------------
(* transformations.py: apply_each called on its own.  input is the node as
   it was, doc the node object after the call, data what was returned.     *)

\* the nodes apply_each is called with
EachCalls ==
    {DictV(<<KV("$each", l)>> \o own) :
        l \in EachLists \cup {IntV(1)},
        own \in {<<>>, <<KV("k", IntV(1))>>, <<KV("x", IntV(9))>>,
                 <<KV("k", IntV(1)), KV("x", IntV(9))>>}}
    \cup {DictV(own \o <<KV("$each", l)>>) :
             l \in EachLists \cup {IntV(1)},
             own \in {<<KV("k", IntV(1))>>, <<KV("x", IntV(9))>>}}
    \cup {D1("k", IntV(1)), IntV(1)}

RECURSIVE AllocItems(_, _, _, _)
\* the dicts among the items become objects of the heap
AllocItems(items, i, done, H) ==
    IF i > Len(items) THEN R(ListV(done), H)
    ELSE IF IsDict(items[i])
    THEN LET o == Alloc(H, items[i])
         IN AllocItems(items, i + 1, Append(done, o.res), o.L)
    ELSE AllocItems(items, i + 1, Append(done, items[i]), H)

\* the node as an object of a heap that holds its items
AllocNode(node) ==
    IF ~IsDict(node) THEN R(node, EmptyHeap)
    ELSE IF HasKey(node, "$each") /\ IsList(Lookup(node, "$each"))
    THEN LET items == AllocItems(Lookup(node, "$each").v, 1, <<>>, EmptyHeap)
         IN Alloc(items.L, DictSet(node, "$each", items.res))
    ELSE Alloc(EmptyHeap, node)

InitEach ==
    /\ input \in EachCalls
    /\ doc = input
    /\ data = NoneV
    /\ pc = "apply_each"
    /\ err = ""

CallApplyEach ==
    /\ pc = "apply_each"
    /\ LET o == AllocNode(input)
           r == apply_each(o.res, o.L)
       IN /\ doc' = Deref(o.res, r.L)
          /\ IF IsErr(r.res)
             THEN /\ pc' = "raised"
                  /\ err' = r.res.v
                  /\ data' = NoneV
             ELSE /\ pc' = "returned"
                  /\ err' = err
                  /\ data' = Deref(r.res, r.L)
    /\ UNCHANGED input

NextEach == CallApplyEach

SpecEach == InitEach /\ [][NextEach]_vars

----------------------------------------------------------------------------
(* What the properties are stated with *)

RECURSIVE TreeEq(_, _)
\* == of Python: dicts are equal whatever the order of their keys
TreeEq(a, b) ==
    CASE IsDict(a) /\ IsDict(b) ->
           /\ Len(a.v) = Len(b.v)
           /\ Keys(a) = Keys(b)
           /\ \A k \in Keys(a) : TreeEq(Lookup(a, k), Lookup(b, k))
      [] IsList(a) /\ IsList(b) ->
           /\ Len(a.v) = Len(b.v)
           /\ \A i \in 1..Len(a.v) : TreeEq(a.v[i], b.v[i])
      [] OTHER -> a.t = b.t /\ a = b

\* two lists of documents, equal document by document
SameDocs(xs, ys) ==
    /\ Len(xs) = Len(ys)
    /\ \A i \in 1..Len(xs) : TreeEq(xs[i], ys[i])

RECURSIVE HasKeyDeep(_, _)
\* some mapping at some depth of v has a key of S
HasKeyDeep(v, S) ==
    CASE IsDict(v) ->
           \E i \in 1..Len(v.v) : v.v[i].k \in S \/ HasKeyDeep(v.v[i].n, S)
      [] IsList(v) \/ IsVersions(v) ->
           \E i \in 1..Len(v.v) : HasKeyDeep(v.v[i], S)
      [] OTHER -> FALSE

RECURSIVE HasVersions(_)
\* a Versions object is somewhere in v
HasVersions(v) ==
    CASE IsVersions(v) -> TRUE
      [] IsDict(v) -> \E i \in 1..Len(v.v) : HasVersions(v.v[i].n)
      [] IsList(v) -> \E i \in 1..Len(v.v) : HasVersions(v.v[i])
      [] OTHER -> FALSE

Finished == pc \in {"done", "failed"}

\* a mapping item merged with the other keys of its $each node, which win
Merged(item, rest) ==
    DictV([i \in 1..Len(item.v) |->
              IF HasKey(rest, item.v[i].k)
              THEN KV(item.v[i].k, Lookup(rest, item.v[i].k))
              ELSE item.v[i]]
          \o SelectSeq(rest.v, LAMBDA it : ~HasKey(item, it.k)))

\* the entry an item of $each stands for in a node with the other keys rest
Entry(rest, item) ==
    IF item = NoneMarker THEN rest
    ELSE IF IsDict(item) THEN Merged(item, rest)
    ELSE item

RECURSIVE Expand(_)
RECURSIVE ExpandItems(_, _)
\* the versions of a tree whose $each nodes hold no further $each, in product
\* order: version k takes the entry number (k div the number of versions of
\* what follows) of the first $each, so the first varies slowest
Expand(v) ==
    CASE IsDict(v) /\ HasKey(v, "$each") ->
           [j \in 1..Len(Lookup(v, "$each").v) |->
               Entry(DictDel(v, "$each"), Lookup(v, "$each").v[j])]
      [] IsDict(v) ->
           LET items == ExpandItems(v.v, 1)
           IN [k \in 1..Len(items) |->
                  DictV([i \in 1..Len(v.v) |-> KV(v.v[i].k, items[k][i])])]
      [] IsList(v) ->
           LET items == ExpandItems([i \in 1..Len(v.v) |-> KV("", v.v[i])], 1)
           IN [k \in 1..Len(items) |-> ListV(items[k])]
      [] OTHER -> <<v>>

\* the versions of the values of items[i..], as sequences of values
ExpandItems(items, i) ==
    IF i > Len(items) THEN << <<>> >>
    ELSE LET heads == Expand(items[i].n)
             tails == ExpandItems(items, i + 1)
         IN [k \in 1..(Len(heads) * Len(tails)) |->
                <<heads[((k - 1) \div Len(tails)) + 1]>>
                \o tails[((k - 1) % Len(tails)) + 1]]

RECURSIVE SiblingEach(_)
\* every $each of v is a list, holds no $each itself, stands beside none, and
\* lists plain items only where the node has no other key
SiblingEach(v) ==
    CASE IsDict(v) /\ HasKey(v, "$each") ->
           LET each == Lookup(v, "$each")
               rest == DictDel(v, "$each")
           IN /\ IsList(each)
              /\ ~HasKeyDeep(each, {"$each"})
              /\ ~HasKeyDeep(rest, {"$each"})
              /\ \A j \in 1..Len(each.v) :
                    each.v[j] = NoneMarker \/ IsDict(each.v[j]) \/ rest.v = <<>>
      [] IsDict(v) -> \A i \in 1..Len(v.v) : SiblingEach(v.v[i].n)
      [] IsList(v) -> \A i \in 1..Len(v.v) : SiblingEach(v.v[i])
      [] OTHER -> TRUE

----------------------------------------------------------------------------
(* C1: a document whose only directives are $each nodes at sibling keys or
   list positions expands to one document per combination of their items,
   as many as the product of the list lengths, in product order (the first
   $each met varies slowest, the last fastest), everything else copied
   unchanged into every document.                                          *)

C1_Scope ==
    /\ ~HasKeyDeep(input, {"$from", "$ref", "$eval"})
    /\ SiblingEach(input)

C1_ProductOrder ==
    (C1_Scope /\ Finished) =>
        pc = "done" /\ SameDocs(data.v, Expand(input))

\* two $each of two items at sibling keys: four documents, b changes first
C1_Witness ==
    /\ pc = "done"
    /\ input = D3("a", D1("$each", ListV(<<IntV(1), IntV(2)>>)),
                  "c", StrV(<<"x">>),
                  "b", D1("$each", ListV(<<IntV(1), IntV(2)>>)))
    /\ Len(data.v) = 4
    /\ TreeEq(data.v[2], D3("a", IntV(1), "c", StrV(<<"x">>), "b", IntV(2)))
    /\ TreeEq(data.v[3], D3("a", IntV(2), "c", StrV(<<"x">>), "b", IntV(1)))

----------------------------------------------------------------------------
(* C2: $ref is resolved after $each, in every document on its own: a $ref
   to a node that holds a $each of N items leaves the number of documents at
   the N of the $each expansion, and in every document the value at the
   place of the $ref is the value its target has in that same document.    *)

RECURSIVE RefSites(_, _)
\* the $ref nodes of v outside its $each nodes: where they are, what they name
RefSites(v, at) ==
    CASE IsDict(v) /\ HasKey(v, "$ref") ->
           {[p |-> at, target |-> Lookup(v, "$ref")]}
      [] IsDict(v) /\ HasKey(v, "$each") -> {}
      [] IsDict(v) ->
           UNION {RefSites(v.v[i].n, Append(at, v.v[i].k)) : i \in 1..Len(v.v)}
      [] IsList(v) ->
           UNION {RefSites(v.v[i], Append(at, IndexKey(i - 1))) : i \in 1..Len(v.v)}
      [] OTHER -> {}

C2_Scope ==
    /\ ~HasKeyDeep(input, {"$from", "$eval"})
    /\ SiblingEach(input)
    /\ HasKeyDeep(input, {"$each"})
    /\ RefSites(input, <<>>) # {}

C2_RefAfterEach ==
    (C2_Scope /\ pc = "done") =>
        /\ Len(data.v) = Len(Expand(input))
        /\ \A j \in 1..Len(data.v) : \A s \in RefSites(input, <<>>) :
              TreeEq(GetPath(data.v[j], s.p, 1),
                     get_item_from_path(data.v[j], s.target))

\* a $ref to a $each of two items: two documents, each with its own value
C2_Witness ==
    /\ pc = "done"
    /\ input = D2("a", D1("$each", ListV(<<IntV(1), IntV(2)>>)),
                  "b", Ref(<<"a">>))
    /\ Len(data.v) = 2
    /\ Lookup(data.v[1], "b") = IntV(1)
    /\ Lookup(data.v[2], "b") = IntV(2)

----------------------------------------------------------------------------
(* C3 as stated: every returned document is fully concrete, no mapping at
   any depth has a $from, $ref, $each or $eval key and no Versions object
   is left in it.                                                          *)

----------------------------------------------------------------------------
(* C4: apply_each on a node whose $each lists i1..in returns a Versions of
   n entries in the order of the items: the node without $each for "$None",
   the item merged with the other keys of the node (which win) for a
   mapping, the item itself for any other item of a node with no other
   key.  Checked under SpecEach.                                           *)

C4_Scope ==
    /\ IsDict(input) /\ HasKey(input, "$each")
    /\ IsList(Lookup(input, "$each"))
    /\ \A j \in 1..Len(Lookup(input, "$each").v) :
          LET item == Lookup(input, "$each").v[j]
          IN item = NoneMarker \/ IsDict(item) \/ Len(input.v) = 1

C4_EachEntries ==
    (C4_Scope /\ pc \in {"returned", "raised"}) =>
        /\ pc = "returned"
        /\ IsVersions(data)
        /\ SameDocs(data.v,
                    [j \in 1..Len(Lookup(input, "$each").v) |->
                        Entry(DictDel(input, "$each"), Lookup(input, "$each").v[j])])

\* a mapping item with a key the node has too, then "$None"
C4_Witness ==
    /\ pc = "returned"
    /\ input = D2("$each", ListV(<<D1("k", IntV(4)), NoneMarker>>), "k", IntV(1))
    /\ data = VersionsV(<<D1("k", IntV(1)), D1("k", IntV(1))>>)

----------------------------------------------------------------------------
(* C5 as stated: when a node with keys besides $each lists an item that is
   neither a mapping nor "$None", or when a $each is not a list, the
   expansion fails with TypeError and no document is returned.             *)

RECURSIVE HasBadEach(_)
\* v holds a $each that is no list, or one that lists a plain item in a
\* node with other keys
HasBadEach(v) ==
    CASE IsDict(v) ->
           \/ /\ HasKey(v, "$each")
              /\ LET each == Lookup(v, "$each")
                 IN \/ ~IsList(each)
                    \/ /\ Len(v.v) > 1
                       /\ \E j \in 1..Len(each.v) :
                             each.v[j] # NoneMarker /\ ~IsDict(each.v[j])
           \/ \E i \in 1..Len(v.v) : HasBadEach(v.v[i].n)
      [] IsList(v) -> \E i \in 1..Len(v.v) : HasBadEach(v.v[i])
      [] OTHER -> FALSE

C5_Scope ==
    /\ ~HasKeyDeep(input, {"$from", "$ref", "$eval"})
    /\ HasBadEach(input)

C5_TypeError ==
    (C5_Scope /\ Finished) => (pc = "failed" /\ err = "TypeError")

----------------------------------------------------------------------------
(* C6 as stated: a $from node becomes its source (itself resolved first)
   deep-merged with the node's own keys: keys of the source alone are
   inherited, keys of both take the node's value, mappings of both are
   merged by the same rule, $from is gone, and the source stays as it is.  *)

RECURSIVE DeepMerge(_, _)
\* source with the keys of own laid over it
DeepMerge(source, own) ==
    LET Both(key) ==
            IF IsDict(Lookup(source, key)) /\ IsDict(Lookup(own, key))
            THEN DeepMerge(Lookup(source, key), Lookup(own, key))
            ELSE Lookup(own, key)
    IN DictV([i \in 1..Len(source.v) |->
                 IF HasKey(own, source.v[i].k)
                 THEN KV(source.v[i].k, Both(source.v[i].k))
                 ELSE source.v[i]]
             \o SelectSeq(own.v, LAMBDA it : ~HasKey(source, it.k)))

RECURSIVE Inherit(_, _)
\* tree with every $from node of it replaced by what it inherits; root is
\* the document the paths are read in
Inherit(tree, root) ==
    CASE IsDict(tree) ->
           LET own == DictV([i \in 1..Len(tree.v) |->
                               KV(tree.v[i].k, Inherit(tree.v[i].n, root))])
           IN IF HasKey(tree, "$from")
              THEN DeepMerge(
                     Inherit(get_item_from_path(root, Lookup(tree, "$from")), root),
                     DictDel(own, "$from"))
              ELSE own
      [] IsList(tree) -> ListV([i \in 1..Len(tree.v) |-> Inherit(tree.v[i], root)])
      [] OTHER -> tree

C6_Scope ==
    /\ ~HasKeyDeep(input, {"$ref", "$each", "$eval"})
    /\ HasKeyDeep(input, {"$from"})

C6_DeepMerge ==
    (C6_Scope /\ pc = "done") =>
        /\ Len(data.v) = 1
        /\ TreeEq(data.v[1], Inherit(input, input))

----------------------------------------------------------------------------
(* C7: in a document whose directives are $ref only, every $ref whose chain
   of references ends after finitely many steps in a value that is no
   reference holds, in the output, the value that final position holds,
   whatever the order of the keys; when every chain ends in a value without
   references the expansion succeeds; a mapping with $ref and another key
   makes it fail.                                                          *)

IsRef(tree) == IsDict(tree) /\ Len(tree.v) = 1 /\ HasKey(tree, "$ref")

RECURSIVE HasRefWithOtherKey(_)
HasRefWithOtherKey(tree) ==
    CASE IsDict(tree) ->
           \/ HasKey(tree, "$ref") /\ Len(tree.v) > 1
           \/ \E i \in 1..Len(tree.v) : HasRefWithOtherKey(tree.v[i].n)
      [] IsList(tree) -> \E i \in 1..Len(tree.v) : HasRefWithOtherKey(tree.v[i])
      [] OTHER -> FALSE

RECURSIVE ChainEnd(_, _, _)
\* where the references that start at path lead within n steps: the path of
\* the first value that is no reference, or an error
ChainEnd(root, path, n) ==
    LET here == GetPath(root, path, 1)
    IN IF IsErr(here) THEN here
       ELSE IF ~IsRef(here) THEN StrV(path)
       ELSE IF n = 0 \/ Lookup(here, "$ref").t # "str" THEN Raise("NoEnd")
       ELSE ChainEnd(root, Lookup(here, "$ref").v, n - 1)

C7_Scope ==
    /\ ~HasKeyDeep(input, {"$from", "$each", "$eval"})
    /\ HasKeyDeep(input, {"$ref"})

\* every chain of the input ends in a value that holds no reference
C7_ChainsEnd ==
    \A s \in RefSites(input, <<>>) :
        LET end == ChainEnd(input, s.p, Cardinality(RefSites(input, <<>>)))
        IN ~IsErr(end) /\ ~HasKeyDeep(GetPath(input, end.v, 1), {"$ref"})

----------------------------------------------------------------------------
(* C8: a document without any $from, $ref, $each or $eval key at any depth
   comes back as a list of exactly one document, structurally equal to the
   input.                                                                  *)

C8_Scope == ~HasKeyDeep(input, {"$from", "$ref", "$each", "$eval"})

C8_PlainDocument ==
    (C8_Scope /\ Finished) =>
        /\ pc = "done"
        /\ Len(data.v) = 1
        /\ TreeEq(data.v[1], input)

\* a plain document with a list, mappings and an empty mapping in it
C8_Witness ==
    /\ pc = "done"
    /\ input = D1("a", ListV(<<D1("a", IntV(1)), D1("k", DictV(<<>>))>>))
    /\ data = ListV(<<input>>)

----------------------------------------------------------------------------
(* C9: apply_transformations never changes the document it is given, at no
   line and however it ends, so a second call with the same object gives
   what the first call gave.                                               *)

\* what apply_transformations gives for the object d: how it ends, with
\* which exception, and the list it returns
SecondCall(d) ==
    LET outcome(p, e, x) == [pc |-> p, err |-> e, data |-> x]
        from == FromPass(d)
    IN IF IsErr(from.res) THEN outcome("failed", from.res.v, NoneV)
       ELSE LET eval == EvalPass(from.res, from.L)
            IN IF IsErr(eval.res) THEN outcome("failed", eval.res.v, NoneV)
               ELSE LET each == EachPass(eval.res)
                    IN IF IsErr(each) THEN outcome("failed", each.v, NoneV)
                       ELSE LET refs == ResolveRefs(each.v, 1, <<>>)
                            IN IF IsErr(refs) THEN outcome("failed", refs.v, NoneV)
                               ELSE outcome("done", "", refs)

----------------------------------------------------------------------------
(* C10 as stated: before the trial pass, a $eval whose text refers to $trial
   is left in place as a mapping with the single key $eval, its text with
   $trial written as __trial__ and every "$." path that can be resolved
   replaced by the literal of the value it names; a failure for any other
   reason leaves apply_transformations as an exception.                    *)

\* the text of the $eval at key b
C10_Text == Lookup(Lookup(input, "b"), "$eval").v

\* a document whose one directive is a $eval at key b that refers to
\* $trial and whose "$." paths all name values of the document
C10_Scope ==
    /\ ~HasKeyDeep(input, {"$from", "$ref", "$each"})
    /\ HasKey(input, "b")
    /\ IsDict(Lookup(input, "b"))
    /\ Keys(Lookup(input, "b")) = {"$eval"}
    /\ Lookup(Lookup(input, "b"), "$eval").t = "txt"
    /\ ~HasKeyDeep(DictDel(input, "b"), {"$eval"})
    /\ \E i \in 1..Len(C10_Text) : C10_Text[i].k = "trial"
    /\ \A i \in 1..Len(C10_Text) :
          C10_Text[i].k = "dollar" => ~IsErr(GetPath(DictDel(input, "b"), C10_Text[i].p, 1))

\* the text with __trial__ for $trial and a literal for every path
C10_Expected ==
    [i \in 1..Len(C10_Text) |->
        IF C10_Text[i].k = "dollar"
        THEN Substituted(GetPath(input, C10_Text[i].p, 1), <<>>)
        ELSE RenameTrial(C10_Text)[i]]

C10_TrialDeferred ==
    /\ (C10_Scope /\ pc = "each") =>
          Lookup(data, "b") = D1("$eval", TxtV(C10_Expected))
    /\ pc = "failed" => err # "NameError(__trial__)"

----------------------------------------------------------------------------
(* datatypes.py *)
(* An object of a Node class is [t |-> the class name, v |-> the items of  *)
(* the UserDict]; an object of a ListNode class is [t |-> the class name,  *)
(* v |-> the elements of the UserList].                                    *)

NodeV(class, contents) == [t |-> class, v |-> contents]

BoolV(b) == [t |-> "bool", v |-> b]

IsNode(x) == x.t \in {"Algorithm", "Dataset", "Experiment"}

IsListNode(x) == x.t \in {"Algorithms", "Datasets", "Experiments"}

\* the values with a get method: dict and the UserDict classes
HasGet(x) == IsDict(x) \/ IsNode(x)

\* data.get(key, default)
Get(value, key, default) ==
    IF HasKey(value, key) THEN Lookup(value, key) ELSE default

result_type(class) ==
    CASE class = "Algorithm" -> "Algorithms"
      [] class = "Dataset" -> "Datasets"
      [] class = "Experiment" -> "Experiments"

\* the class a ListNode class makes its elements of
ElementClass(class) ==
    CASE class = "Algorithms" -> "Algorithm"
      [] class = "Datasets" -> "Dataset"
      [] class = "Experiments" -> "Experiment"

Algorithm_verify(value) ==
    IF ~HasGet(value) THEN Raise("AttributeError")
    ELSE BoolV(/\ IsStr(Get(value, "image", NoneV))
               /\ IsStr(Get(value, "instance", NoneV))
               /\ IsDict(Get(value, "hyperparameters", DictV(<<>>))))

Dataset_verify(value) ==
    IF ~HasGet(value) THEN Raise("AttributeError")
    ELSE BoolV(/\ IsDict(Get(value, "path", NoneV))
               /\ IsDict(Get(value, "meta", DictV(<<>>))))

Experiment_verify(value) ==
    IF ~HasGet(value) THEN Raise("AttributeError")
    ELSE LET And(algorithm) ==
                 IF IsErr(algorithm) \/ ~algorithm.v THEN algorithm
                 ELSE Dataset_verify(Get(value, "dataset", DictV(<<>>)))
         IN And(Algorithm_verify(Get(value, "algorithm", DictV(<<>>))))

\* class_.verify(data) for a Node class
Node_verify(class, value) ==
    CASE class = "Algorithm" -> Algorithm_verify(value)
      [] class = "Dataset" -> Dataset_verify(value)
      [] class = "Experiment" -> Experiment_verify(value)

RECURSIVE AllVerify(_, _, _)
\* all(map(class.verify, elems[i..])): stops at the first element that fails
AllVerify(class, elems, i) ==
    IF i > Len(elems) THEN BoolV(TRUE)
    ELSE LET And(ok) == IF IsErr(ok) \/ ~ok.v THEN ok
                        ELSE AllVerify(class, elems, i + 1)
         IN And(Node_verify(class, elems[i]))

\* class_.verify(data) for a ListNode class: data and all(map(verify, data))
ListNode_verify(class, value) ==
    IF Len(value.v) = 0 THEN BoolV(FALSE)
    ELSE AllVerify(ElementClass(class), value.v, 1)

\* a constructor that wraps the mapping and never looks at it
NewNodeUnverified(class, node) == NodeV(class, node.v)

\* Algorithm(node), Dataset(node), Experiment(node)
NewNode(class, node) ==
    IF ~HasGet(node) THEN Raise("TypeError")
    ELSE LET Checked(ok) ==
                 IF IsErr(ok) THEN ok
                 ELSE IF ok.v THEN NodeV(class, node.v)
                 ELSE Raise("TypeError")
         IN Checked(Node_verify(class, node))

\* Algorithms(data), Datasets(data), Experiments(data)
NewListNode(class, value) ==
    LET Checked(ok) ==
            IF IsErr(ok) THEN ok
            ELSE IF ~ok.v THEN Raise("TypeError")
            ELSE NodeV(class,
                       [i \in 1..Len(value.v) |->
                           IF class = "Experiments" /\ value.v[i].t = "Experiment"
                           THEN value.v[i]
                           ELSE NewNode(ElementClass(class), value.v[i])])
    IN Checked(ListNode_verify(class, value))

\* from_nodes without its second attempt
from_nodes_one_direction(node_1, node_2) ==
    NewNode("Experiment", DictV(<<KV("algorithm", node_1),
                                  KV("dataset", node_2)>>))

\* Experiment.from_nodes
from_nodes(node_1, node_2) ==
    LET Except(first) ==
            IF IsErr(first) /\ first.v = "TypeError"
            THEN NewNode("Experiment", DictV(<<KV("algorithm", node_2),
                                               KV("dataset", node_1)>>))
            ELSE first
    IN Except(NewNode("Experiment", DictV(<<KV("algorithm", node_1),
                                            KV("dataset", node_2)>>)))

\* a list comprehension: the list, or the first exception one of its
\* elements raised
Comprehension(results) ==
    IF \E i \in 1..Len(results) : IsErr(results[i])
    THEN results[CHOOSE i \in 1..Len(results) :
                     /\ IsErr(results[i])
                     /\ \A j \in 1..(i - 1) : ~IsErr(results[j])]
    ELSE ListV(results)

\* Experiments([...]) of a list comprehension
ExperimentsOf(comprehension) ==
    IF IsErr(comprehension) THEN comprehension
    ELSE NewListNode("Experiments", comprehension)

Node__mul__(self, other) ==
    IF self.t = "Experiment" THEN Raise("TypeError")
    ELSE IF IsNode(other)
    THEN ExperimentsOf(Comprehension(<<from_nodes(self, other)>>))
    ELSE IF IsListNode(other)
    THEN ExperimentsOf(Comprehension(
             [i \in 1..Len(other.v) |-> from_nodes(self, other.v[i])]))
    ELSE Raise("TypeError")

\* a product that takes the right operand as the outer loop
ListNode__mul__right_outer(self, other) ==
    IF self.t = "Experiments" THEN Raise("TypeError")
    ELSE IF other.t \in {"Algorithms", "Datasets"}
    THEN ExperimentsOf(Comprehension(
             [i \in 1..(Len(self.v) * Len(other.v)) |->
                 from_nodes(self.v[((i - 1) % Len(self.v)) + 1],
                            other.v[((i - 1) \div Len(self.v)) + 1])]))
    ELSE IF IsNode(other)
    THEN ExperimentsOf(Comprehension(
             [i \in 1..Len(self.v) |-> from_nodes(self.v[i], other)]))
    ELSE Raise("TypeError")

ListNode__mul__(self, other) ==
    IF self.t = "Experiments" THEN Raise("TypeError")
    ELSE IF other.t \in {"Algorithms", "Datasets"}
    THEN ExperimentsOf(Comprehension(
             [i \in 1..(Len(self.v) * Len(other.v)) |->
                 from_nodes(self.v[((i - 1) \div Len(other.v)) + 1],
                            other.v[((i - 1) % Len(other.v)) + 1])]))
    ELSE IF IsNode(other)
    THEN ExperimentsOf(Comprehension(
             [i \in 1..Len(self.v) |-> from_nodes(self.v[i], other)]))
    ELSE Raise("TypeError")

\* an addition that appends whatever it is given
ListNode__add__unverified(self, other) ==
    IF other.t = self.t THEN NodeV(self.t, self.v \o other.v)
    ELSE IF IsNode(other) THEN NodeV(self.t, Append(self.v, other))
    ELSE Raise("TypeError")

ListNode__add__(self, other) ==
    IF other.t = self.t
    THEN NewListNode(self.t, ListV(self.v \o other.v))
    ELSE IF IsNode(other)
    THEN NewListNode(self.t, ListV(Append(self.v, other)))
    ELSE Raise("TypeError")

Node__add__(self, other) ==
    IF other.t = self.t
    THEN NewListNode(result_type(self.t), ListV(<<self, other>>))
    ELSE IF other.t = result_type(self.t)
    THEN LET Plus(single) == IF IsErr(single) THEN single
                             ELSE ListNode__add__(single, other)
         IN Plus(NewListNode(result_type(self.t), ListV(<<self>>)))
    ELSE Raise("TypeError")

----------------------------------------------------------------------------
(* runtool.py: infer_type *)

RECURSIVE FirstVerified(_, _, _)
\* for class_ in classes: if class_.verify(node): return class_(node)
\* return node
FirstVerified(node, classes, i) ==
    IF i > Len(classes) THEN node
    ELSE LET If(ok) ==
                 IF IsErr(ok) THEN ok
                 ELSE IF ~ok.v THEN FirstVerified(node, classes, i + 1)
                 ELSE IF IsList(node) THEN NewListNode(classes[i], node)
                 ELSE NewNode(classes[i], node)
         IN If(IF IsList(node) THEN ListNode_verify(classes[i], node)
               ELSE Node_verify(classes[i], node))

infer_type_list(node) ==
    FirstVerified(node, <<"Algorithms", "Datasets", "Experiments">>, 1)

infer_type_dict(node) ==
    FirstVerified(node, <<"Algorithm", "Dataset", "Experiment">>, 1)

\* the singledispatch function: dict, list, and the base case
infer_type(node) ==
    CASE IsDict(node) -> infer_type_dict(node)
      [] IsList(node) -> infer_type_list(node)
      [] OTHER -> node

----------------------------------------------------------------------------
(* The values handed to infer_type and to the constructors *)

AlgorithmItems ==
    { <<>>,
      <<KV("image", StrV(<<"i">>)), KV("instance", StrV(<<"n">>))>>,
      <<KV("image", StrV(<<"i">>)), KV("instance", StrV(<<"n">>)),
        KV("hyperparameters", DictV(<<KV("x", IntV(1))>>))>>,
      <<KV("image", StrV(<<"i">>)), KV("instance", StrV(<<"n">>)),
        KV("hyperparameters", IntV(1))>>,
      <<KV("image", IntV(1)), KV("instance", StrV(<<"n">>))>>,
      <<KV("image", StrV(<<"i">>))>> }

DatasetItems ==
    { <<>>,
      <<KV("path", DictV(<<>>))>>,
      <<KV("path", DictV(<<KV("x", StrV(<<"y">>))>>)), KV("meta", DictV(<<>>))>>,
      <<KV("path", DictV(<<>>)), KV("meta", IntV(1))>>,
      <<KV("path", StrV(<<"y">>))>> }

AlgorithmDict == DictV(<<KV("image", StrV(<<"i">>)), KV("instance", StrV(<<"n">>))>>)

DatasetDict == DictV(<<KV("path", DictV(<<>>))>>)

ExperimentItems ==
    { <<>>,
      <<KV("algorithm", AlgorithmDict), KV("dataset", DatasetDict)>>,
      <<KV("algorithm", AlgorithmDict)>>,
      <<KV("dataset", DatasetDict)>>,
      <<KV("algorithm", DatasetDict), KV("dataset", AlgorithmDict)>>,
      <<KV("algorithm", IntV(5)), KV("dataset", DatasetDict)>> }

\* mappings with any of the keys of an algorithm, a dataset and an experiment
Mappings ==
    { DictV(e \o a \o d) :
          e \in ExperimentItems, a \in AlgorithmItems, d \in DatasetItems }

\* what the sequences hold
Elements ==
    { DictV(<<>>), AlgorithmDict, DatasetDict,
      DictV(AlgorithmDict.v \o DatasetDict.v),
      DictV(<<KV("algorithm", AlgorithmDict), KV("dataset", DatasetDict)>>),
      DictV(<<KV("algorithm", AlgorithmDict), KV("dataset", DatasetDict)>>
            \o AlgorithmDict.v),
      IntV(1) }

Sequences == { ListV(s) : s \in UNION { [1..n -> Elements] : n \in 0..MaxItems } }

PlainScalars == { IntV(5), StrV(<<"y">>) }

Nodes == Mappings \cup Sequences \cup PlainScalars

NodeClasses == {"Algorithm", "Dataset", "Experiment"}

ListNodeClasses == {"Algorithms", "Datasets", "Experiments"}

\* how a call ends: its value, or the exception it raised
Return(call, result) ==
    /\ pc' = call
    /\ err' = IF IsErr(result) THEN result.v ELSE ""
    /\ data' = IF IsErr(result) THEN NoneV ELSE result
    /\ UNCHANGED <<input, doc>>

InitTypes ==
    /\ input \in Nodes
    /\ doc = input
    /\ data = NoneV
    /\ pc = "call"
    /\ err = ""

\* infer_type(input)
InferType ==
    /\ pc = "call"
    /\ Return("infer_type", infer_type(input))

\* Algorithm(input), Dataset(input), Experiment(input) for a mapping
ConstructNode ==
    /\ pc = "call"
    /\ IsDict(input)
    /\ \E class \in NodeClasses : Return(class, NewNode(class, input))

\* Algorithms(input), Datasets(input), Experiments(input) for a sequence
ConstructListNode ==
    /\ pc = "call"
    /\ IsList(input)
    /\ \E class \in ListNodeClasses : Return(class, NewListNode(class, input))

NextTypes == InferType \/ ConstructNode \/ ConstructListNode

SpecTypes == InitTypes /\ [][NextTypes]_vars

----------------------------------------------------------------------------
(* The structural invariants of the types, as the documentation words them *)

\* an Algorithm: a string image, a string instance, hyperparameters a mapping
\* when present
IsAlgorithm(m) ==
    /\ HasGet(m)
    /\ HasKey(m, "image") /\ IsStr(Lookup(m, "image"))
    /\ HasKey(m, "instance") /\ IsStr(Lookup(m, "instance"))
    /\ HasKey(m, "hyperparameters") => IsDict(Lookup(m, "hyperparameters"))

\* a Dataset: path a mapping, meta a mapping when present
IsDataset(m) ==
    /\ HasGet(m)
    /\ HasKey(m, "path") /\ IsDict(Lookup(m, "path"))
    /\ HasKey(m, "meta") => IsDict(Lookup(m, "meta"))

\* an Experiment: an Algorithm under "algorithm", a Dataset under "dataset"
IsExperiment(m) ==
    /\ HasGet(m)
    /\ HasKey(m, "algorithm") /\ IsAlgorithm(Lookup(m, "algorithm"))
    /\ HasKey(m, "dataset") /\ IsDataset(Lookup(m, "dataset"))

Satisfies(class, m) ==
    CASE class = "Algorithm" -> IsAlgorithm(m)
      [] class = "Dataset" -> IsDataset(m)
      [] class = "Experiment" -> IsExperiment(m)

\* a non-empty sequence whose every element satisfies the singular invariant
SatisfiesAll(class, s) ==
    /\ Len(s.v) > 0
    /\ \A i \in 1..Len(s.v) : Satisfies(ElementClass(class), s.v[i])

\* the object of a class made of a value that satisfies the invariant
ObjectOf(class, node) ==
    IF class \in NodeClasses THEN NodeV(class, node.v)
    ELSE NodeV(class, [i \in 1..Len(node.v) |->
                          NodeV(ElementClass(class), node.v[i].v)])

----------------------------------------------------------------------------
(* C11 *)

\* the first class of the order whose invariant the node satisfies, made of
\* the node; the node itself when it satisfies none
ByPriority(node, classes) ==
    IF \E i \in 1..Len(classes) :
           IF IsList(node) THEN SatisfiesAll(classes[i], node)
           ELSE Satisfies(classes[i], node)
    THEN ObjectOf(classes[CHOOSE i \in 1..Len(classes) :
                      /\ IF IsList(node) THEN SatisfiesAll(classes[i], node)
                         ELSE Satisfies(classes[i], node)
                      /\ \A j \in 1..(i - 1) :
                             ~(IF IsList(node) THEN SatisfiesAll(classes[j], node)
                               ELSE Satisfies(classes[j], node))], node)
    ELSE node

\* C11: infer_type gives a mapping the first of Experiment, Algorithm, Dataset
\* whose invariant it satisfies, a sequence the first of Experiments,
\* Algorithms, Datasets, and returns a node that satisfies none unchanged.
C11_ExperimentFirst ==
    pc = "infer_type" =>
        /\ err = ""
        /\ data = CASE IsDict(input) ->
                         ByPriority(input, <<"Experiment", "Algorithm", "Dataset">>)
                    [] IsList(input) ->
                         ByPriority(input, <<"Experiments", "Algorithms", "Datasets">>)
                    [] OTHER -> input

----------------------------------------------------------------------------
(* C15 *)

\* C15: Algorithm(m), Dataset(m) and Experiment(m) return an object holding
\* the items of m exactly when m satisfies the invariant of the class and
\* raise otherwise; Algorithms(s), Datasets(s) and Experiments(s) raise when
\* s is empty or one of its elements breaks the singular invariant, and
\* return the elements as objects of the singular class otherwise.
C15_Construction ==
    /\ pc \in NodeClasses =>
           /\ (err = "") <=> Satisfies(pc, input)
           /\ data = IF err = "" THEN ObjectOf(pc, input) ELSE NoneV
    /\ pc \in ListNodeClasses =>
           /\ (err = "") <=> SatisfiesAll(pc, input)
           /\ data = IF err = "" THEN ObjectOf(pc, input) ELSE NoneV

\* Experiment({"algorithm": valid_algo}) has been called and raised
C15_Witness ==
    /\ pc = "Experiment"
    /\ input = DictV(<<KV("algorithm", AlgorithmDict)>>)
    /\ err = "TypeError"
    /\ data = NoneV

----------------------------------------------------------------------------
(* The algebra of datatypes.py: sequences of + and * on valid operands *)

\* the number of operations in a sequence
MaxOps == 2

AlgorithmDataset == DictV(AlgorithmDict.v \o DatasetDict.v)

AlgorithmDatasetMeta == DictV(Append(AlgorithmDataset.v, KV("meta", DictV(<<>>))))

\* the mappings the operands are made of; AlgorithmDataset and the last
\* three satisfy more than one invariant
OperandMappings ==
    { AlgorithmDict,
      DictV(Append(AlgorithmDict.v, KV("hyperparameters", DictV(<<>>)))),
      DatasetDict,
      DictV(Append(DatasetDict.v, KV("meta", DictV(<<>>)))),
      AlgorithmDataset,
      AlgorithmDatasetMeta,
      DictV(<<KV("algorithm", AlgorithmDict), KV("dataset", DatasetDict)>>),
      DictV(<<KV("algorithm", AlgorithmDict), KV("dataset", DatasetDict)>>
            \o AlgorithmDict.v),
      DictV(<<KV("algorithm", AlgorithmDict), KV("dataset", DatasetDict)>>
            \o DatasetDict.v) }

\* every object the constructors make of them
SingularOperands ==
    { o \in { NewNode(class, m) : class \in NodeClasses, m \in OperandMappings } :
          ~IsErr(o) }

PluralOperands ==
    { o \in { NewListNode(class, ListV(s)) :
                  class \in ListNodeClasses,
                  s \in { <<AlgorithmDict>>,
                          <<AlgorithmDict, AlgorithmDataset>>,
                          <<DatasetDict>>,
                          <<AlgorithmDatasetMeta, DatasetDict>>,
                          <<DictV(<<KV("algorithm", AlgorithmDict),
                                    KV("dataset", DatasetDict)>>)>> } } :
          ~IsErr(o) }

Operands == SingularOperands \cup PluralOperands

\* x + y and x * y for an object x of these classes; the methods raise
\* TypeError themselves, so Python never tries a reflected method of y
Plus(x, y) == IF IsNode(x) THEN Node__add__(x, y) ELSE ListNode__add__(x, y)

Times(x, y) == IF IsNode(x) THEN Node__mul__(x, y) ELSE ListNode__mul__(x, y)

\* the call made last: t is the operation, v its two arguments
Call(op, x, y) == [t |-> op, v |-> <<x, y>>]

\* the call returns into data, or raises and ends the sequence
Returned(call, result) ==
    /\ input' = call
    /\ doc' = IntV(doc.v + 1)
    /\ pc' = IF IsErr(result) THEN "raised" ELSE "value"
    /\ err' = IF IsErr(result) THEN result.v ELSE ""
    /\ data' = IF IsErr(result) THEN NoneV ELSE result

\* data is the value at hand, doc counts the operations applied to it
InitAlgebra ==
    /\ data \in Operands
    /\ input = NoneV
    /\ doc = IntV(0)
    /\ pc = "value"
    /\ err = ""

\* data = data + y, or data = y + data
ApplyAdd ==
    /\ pc = "value"
    /\ doc.v < MaxOps
    /\ \E y \in Operands :
           \/ Returned(Call("+", data, y), Plus(data, y))
           \/ Returned(Call("+", y, data), Plus(y, data))

\* data = data * y, or data = y * data
ApplyMul ==
    /\ pc = "value"
    /\ doc.v < MaxOps
    /\ \E y \in Operands :
           \/ Returned(Call("*", data, y), Times(data, y))
           \/ Returned(Call("*", y, data), Times(y, data))

\* data = Experiment.from_nodes(data, y), or with the arguments exchanged
ApplyFromNodes ==
    /\ pc = "value"
    /\ doc.v < MaxOps
    /\ IsNode(data)
    /\ \E y \in SingularOperands :
           \/ Returned(Call("from_nodes", data, y), from_nodes(data, y))
           \/ Returned(Call("from_nodes", y, data), from_nodes(y, data))

NextAlgebra == ApplyAdd \/ ApplyMul \/ ApplyFromNodes

SpecAlgebra == InitAlgebra /\ [][NextAlgebra]_vars

----------------------------------------------------------------------------
(* C14 *)

\* C14: every Experiments that a sequence of successful + and * yields is
\* non-empty and each element holds a valid Algorithm under "algorithm" and a
\* valid Dataset under "dataset"; every Algorithms and Datasets is non-empty
\* and its elements satisfy the singular invariant.
C14_WellFormed ==
    (pc = "value" /\ IsListNode(data)) => SatisfiesAll(data.t, data)

\* (Algorithms + Algorithm) * Dataset has been computed
C14_Witness ==
    /\ pc = "value"
    /\ doc.v = 2
    /\ input.t = "*"
    /\ input.v[1].t = "Algorithms" /\ Len(input.v[1].v) = 3
    /\ input.v[2].t = "Dataset"
    /\ data.t = "Experiments" /\ Len(data.v) = 3

----------------------------------------------------------------------------
(* C16 *)

RECURSIVE Plain(_)
\* a value as == sees it: UserDict and UserList compare by their contents
Plain(x) ==
    IF IsNode(x) \/ IsDict(x)
    THEN DictV([i \in 1..Len(x.v) |-> KV(x.v[i].k, Plain(x.v[i].n))])
    ELSE IF IsListNode(x) \/ IsList(x)
    THEN ListV([i \in 1..Len(x.v) |-> Plain(x.v[i])])
    ELSE x

\* the experiment of an algorithm and a dataset
Pair(algorithm, dataset) ==
    DictV(<<KV("algorithm", Plain(algorithm)), KV("dataset", Plain(dataset))>>)

\* both assignments of the two nodes make an Experiment
ValidBothWays(node_1, node_2) ==
    /\ IsAlgorithm(node_1) /\ IsDataset(node_2)
    /\ IsAlgorithm(node_2) /\ IsDataset(node_1)

\* the last call multiplied an Algorithms and a Datasets, in either order
C16_Scope ==
    /\ input.t = "*"
    /\ \/ input.v[1].t = "Algorithms" /\ input.v[2].t = "Datasets"
       \/ input.v[1].t = "Datasets" /\ input.v[2].t = "Algorithms"

\* the elements of the left and of the right operand at position i of the
\* nested loop that has the left operand as the outer loop
C16_Left(i) == input.v[1].v[((i - 1) \div Len(input.v[2].v)) + 1]

C16_Right(i) == input.v[2].v[((i - 1) % Len(input.v[2].v)) + 1]

----------------------------------------------------------------------------
(* C17 *)

\* the family of an operand: the singular class of its type
Family(x) == IF IsListNode(x) THEN ElementClass(x.t) ELSE x.t

\* C17: x * y raises TypeError when x and y are of the same family and when
\* either is an Experiment or an Experiments.
C17_SameFamilyTypeError ==
    (/\ input.t = "*"
     /\ \/ Family(input.v[1]) = Family(input.v[2])
        \/ Family(input.v[1]) = "Experiment"
        \/ Family(input.v[2]) = "Experiment")
    => (pc = "raised" /\ err = "TypeError" /\ data = NoneV)

----------------------------------------------------------------------------
(* C18 *)

\* the elements an operand stands for in a sum
ElementsOf(x) == IF IsListNode(x) THEN x.v ELSE <<x>>

\* C18: x + y of one family is the plural of the family holding the elements
\* of x, then those of y; x + y of two families raises TypeError.
C18_SumOfFamily ==
    input.t = "+" =>
        IF Family(input.v[1]) = Family(input.v[2])
        THEN /\ pc = "value"
             /\ data.t = result_type(Family(input.v[1]))
             /\ Plain(data) = Plain(ListV(ElementsOf(input.v[1])
                                          \o ElementsOf(input.v[2])))
        ELSE pc = "raised" /\ err = "TypeError" /\ data = NoneV

----------------------------------------------------------------------------
(* C19 *)

\* the last call was from_nodes(x, y) or x * y with an Algorithm and a
\* Dataset, in either order
C19_Scope ==
    /\ input.t \in {"from_nodes", "*"}
    /\ \/ input.v[1].t = "Algorithm" /\ input.v[2].t = "Dataset"
       \/ input.v[1].t = "Dataset" /\ input.v[2].t = "Algorithm"

\* the element that the call made
C19_Made == IF input.t = "*" THEN Plain(data.v[1]) ELSE Plain(data)

C19_Algorithm == IF input.v[1].t = "Algorithm" THEN input.v[1] ELSE input.v[2]

C19_Dataset == IF input.v[1].t = "Dataset" THEN input.v[1] ELSE input.v[2]

----------------------------------------------------------------------------
(* recurse_config.py: Versions.__mul__ *)

\* a string as its characters: what str * int makes and what iterating a
\* string gives
CharsV(chars) == [t |-> "chars", v |-> chars]

RECURSIVE Repeat(_, _)
\* s * n for a list or a string s: n copies, none for n <= 0
Repeat(s, n) == IF n <= 0 THEN <<>> ELSE s \o Repeat(s, n - 1)

\* item[0] * item[1] for whatever two entries hold: the method of the left
\* operand, and for an int on the left the sequence repetition or the
\* __rmul__ that UserList gives the right operand
PyMul(x, y) ==
    CASE IsNode(x) -> Node__mul__(x, y)
      [] IsListNode(x) -> ListNode__mul__(x, y)
      [] IsInt(x) ->
           CASE IsInt(y) -> IntV(x.v * y.v)
             [] IsStr(y) -> CharsV(Repeat(Chars(y.v), x.v))
             [] IsList(y) -> ListV(Repeat(y.v, x.v))
             [] IsListNode(y) -> NewListNode(y.t, ListV(Repeat(y.v, x.v)))
             [] OTHER -> Raise("TypeError")
      [] IsStr(x) ->
           IF IsInt(y) THEN CharsV(Repeat(Chars(x.v), y.v))
           ELSE Raise("TypeError")
      [] IsList(x) ->
           IF IsInt(y) THEN ListV(Repeat(x.v, y.v)) ELSE Raise("TypeError")
      [] OTHER -> Raise("TypeError")

\* what chain.from_iterable takes out of one product
Iterate(x) ==
    CASE IsErr(x) -> x
      [] IsList(x) \/ IsListNode(x) -> ListV(x.v)
      [] x.t = "chars" -> ListV([i \in 1..Len(x.v) |-> StrV(<<x.v[i]>>)])
      [] OTHER -> Raise("TypeError")

RECURSIVE Chain(_, _, _)
\* list(chain.from_iterable(products)): the first exception ends it
Chain(products, i, done) ==
    IF i > Len(products) THEN ListV(done)
    ELSE IF IsErr(Iterate(products[i])) THEN Iterate(products[i])
    ELSE Chain(products, i + 1, done \o Iterate(products[i]).v)

\* Versions.__mul__: product(self, other) has self as the outer loop
Versions__mul__(self, other) ==
    LET Made(items) == IF IsErr(items) THEN items
                       ELSE NewListNode("Experiments", items)
    IN Made(Chain([i \in 1..(Len(self.v) * Len(other.v)) |->
                      PyMul(self.v[((i - 1) \div Len(other.v)) + 1],
                            other.v[((i - 1) % Len(other.v)) + 1])],
                  1, <<>>))

\* what the Versions of a configuration hold
VersionsEntries ==
    { NewNode("Algorithm", AlgorithmDict),
      NewNode("Dataset", DatasetDict),
      NewListNode("Algorithms", ListV(<<AlgorithmDict, AlgorithmDataset>>)),
      NewListNode("Datasets", ListV(<<DatasetDict, DatasetDict>>)),
      NewListNode("Experiments",
                  ListV(<<DictV(<<KV("algorithm", AlgorithmDict),
                                  KV("dataset", DatasetDict)>>)>>)),
      IntV(2),
      StrV(<<"y">>) }

VersionsOperands ==
    { VersionsV(s) :
          s \in UNION { [1..n -> VersionsEntries] : n \in 1..MaxItems } }

InitVersions ==
    /\ input \in { Call("*", V, W) : V \in VersionsOperands, W \in VersionsOperands }
    /\ doc = input
    /\ data = NoneV
    /\ pc = "call"
    /\ err = ""

\* input[0] * input[1] for two Versions
MultiplyVersions ==
    /\ pc = "call"
    /\ Return("Versions.__mul__", Versions__mul__(input.v[1], input.v[2]))

NextVersions == MultiplyVersions

SpecVersions == InitVersions /\ [][NextVersions]_vars

----------------------------------------------------------------------------
(* C20 *)

\* the pair of entries at position i of product(V, W)
C20_Left(i) == input.v[1].v[((i - 1) \div Len(input.v[2].v)) + 1]

C20_Right(i) == input.v[2].v[((i - 1) % Len(input.v[2].v)) + 1]

\* the entries are objects of the datatypes and their product is defined
C20_CanMultiply(v, w) ==
    /\ IsNode(v) \/ IsListNode(v)
    /\ IsNode(w) \/ IsListNode(w)
    /\ ~IsErr(Times(v, w))

RECURSIVE C20_Concatenated(_)
\* the elements of the products of the first n pairs
C20_Concatenated(n) ==
    IF n = 0 THEN <<>>
    ELSE C20_Concatenated(n - 1) \o Times(C20_Left(n), C20_Right(n)).v

RECURSIVE C20_Length(_)
\* the sum of |v| * |w| over the first n pairs
C20_Length(n) ==
    IF n = 0 THEN 0
    ELSE C20_Length(n - 1)
         + Len(ElementsOf(C20_Left(n))) * Len(ElementsOf(C20_Right(n)))

\* C20: V * W is the Experiments of the products of all pairs in product
\* order, of length the sum of |v| * |w|; it raises TypeError when some pair
\* cannot be multiplied.
C20_TypeError ==
    pc = "Versions.__mul__" =>
        IF \A i \in 1..(Len(input.v[1].v) * Len(input.v[2].v)) :
               C20_CanMultiply(C20_Left(i), C20_Right(i))
        THEN /\ err = "" /\ data.t = "Experiments"
             /\ data.v = C20_Concatenated(Len(input.v[1].v) * Len(input.v[2].v))
             /\ Len(data.v) = C20_Length(Len(input.v[1].v) * Len(input.v[2].v))
        ELSE err = "TypeError" /\ data = NoneV

----------------------------------------------------------------------------
(* runtool.py: transform_config *)

\* infer_types: valmap(infer_type, data)
infer_types(document) ==
    IF ~IsDict(document) THEN Raise("AttributeError")
    ELSE LET Mapped(values) ==
                 IF IsErr(values) THEN values
                 ELSE DictV([i \in 1..Len(document.v) |->
                                KV(document.v[i].k, values.v[i])])
         IN Mapped(Comprehension([i \in 1..Len(document.v) |->
                                     infer_type(document.v[i].n)]))

RECURSIVE AppendItems(_, _, _)
\* for key, value in dct.items(): result[key].append(value)
\* with result a defaultdict(Versions)
AppendItems(result, items, i) ==
    IF i > Len(items) THEN result
    ELSE AppendItems(
             DictSet(result, items[i].k,
                     VersionsV(Append(IF HasKey(result, items[i].k)
                                      THEN Lookup(result, items[i].k).v
                                      ELSE <<>>,
                                      items[i].n))),
             items, i + 1)

\* every Versions of one entry replaced by the entry
Unwrapped(result) ==
    DictV([i \in 1..Len(result.v) |->
              IF Len(result.v[i].n.v) = 1
              THEN KV(result.v[i].k, result.v[i].n.v[1])
              ELSE result.v[i]])

RECURSIVE generate_versions_unwrapped(_, _, _)
\* an aggregation that hands out single values bare
generate_versions_unwrapped(mapped, i, result) ==
    IF i > Len(mapped) THEN Unwrapped(result)
    ELSE IF IsErr(mapped[i]) THEN mapped[i]
    ELSE generate_versions_unwrapped(mapped, i + 1,
                                     AppendItems(result, mapped[i].v, 1))

RECURSIVE generate_versions(_, _, _)
\* generate_versions(map(infer_types, ...)): the loop over the documents from
\* the i-th on; the map is lazy, so a document that infer_types fails on
\* raises when the loop comes to it
generate_versions(mapped, i, result) ==
    IF i > Len(mapped) THEN result
    ELSE IF IsErr(mapped[i]) THEN mapped[i]
    ELSE generate_versions(mapped, i + 1, AppendItems(result, mapped[i].v, 1))

RECURSIVE DotDict(_)
\* DotDict(init_data): a value with a keys method becomes a DotDict itself
DotDict(init_data) ==
    DictV([i \in 1..Len(init_data.v) |->
              KV(init_data.v[i].k,
                 IF HasGet(init_data.v[i].n) THEN DotDict(init_data.v[i].n)
                 ELSE init_data.v[i].n)])

\* the values at the top-level keys of a configuration
ConfigValues ==
    { AlgorithmDict, DatasetDict, AlgorithmDataset,
      D2("algorithm", AlgorithmDict, "dataset", DatasetDict),
      DictV(D2("algorithm", AlgorithmDict, "dataset", DatasetDict).v
            \o AlgorithmDict.v),
      ListV(<<AlgorithmDict, AlgorithmDict>>),
      ListV(<<DatasetDict>>),
      ListV(<<AlgorithmDict, DatasetDict>>),
      ListV(<<IntV(1), IntV(2)>>),
      IntV(1),
      D1("x", IntV(1)),
      D1("$each", ListV(<<IntV(1), IntV(1)>>)),
      D1("$each", ListV(<<AlgorithmDict, DatasetDict>>)),
      D2("$from", Path(<<"a">>), "meta", DictV(<<>>)),
      D1("$ref", Path(<<"a">>)) }

\* configurations of one and two keys, and a $each of whole documents
Configs ==
    { D1("a", v) : v \in ConfigValues }
    \cup { D2("a", v, "b", w) : v \in ConfigValues, w \in ConfigValues }
    \cup { D1("$each", ListV(<<D1("a", v), D2("b", w, "a", v)>>)) :
               v \in {IntV(1), AlgorithmDict}, w \in {IntV(2), DatasetDict} }
    \cup { D1("$each", ListV(<<D1("a", IntV(1)), IntV(5)>>)) }

InitConfig ==
    /\ input \in Configs
    /\ doc = input
    /\ data = input
    /\ pc = "from"
    /\ err = ""

\* return DotDict(generate_versions(map(infer_types, data)))
Aggregate ==
    /\ pc = "done"
    /\ LET Bind(r) ==
               IF IsErr(r) THEN Fail(r.v)
               ELSE /\ data' = DotDict(r)
                    /\ pc' = "returned"
                    /\ err' = err
       IN Bind(generate_versions([i \in 1..Len(data.v) |-> infer_types(data.v[i])],
                                 1, DictV(<<>>)))
    /\ UNCHANGED <<input, doc>>

NextConfig ==
    ResolveFrom \/ ResolveEval \/ ResolveEach \/ ResolveRef \/ Aggregate

\* transform_config(input)
SpecConfig == InitConfig /\ [][NextConfig]_vars

----------------------------------------------------------------------------
(* C12, C13 *)

\* the concrete documents apply_transformations makes of the configuration
ConcreteDocs == SecondCall(input).data.v

\* the concrete documents that contain the key, in document order
Holding(key) == SelectSeq(ConcreteDocs, LAMBDA d : IsDict(d) /\ HasKey(d, key))

\* the values of the key in them, each as classify returns it
ValuesOf(key, classify(_)) ==
    [i \in 1..Len(Holding(key)) |-> classify(Lookup(Holding(key)[i], key))]

\* C12 as stated: in the result of transform_config a key that one document
\* holds maps to its single value, with no Versions around it.
C12_SingleUnwrapped ==
    pc = "returned" =>
        \A key \in Keys(data) :
            Len(Holding(key)) = 1 =>
                Lookup(data, key) = ValuesOf(key, infer_type)[1]

\* C12, amended: such a key maps to a Versions of length 1 that holds the
\* single value.
C12_SingleWrapped ==
    pc = "returned" =>
        \A key \in Keys(data) :
            Len(Holding(key)) = 1 =>
                /\ IsVersions(Lookup(data, key))
                /\ Lookup(data, key).v = <<ValuesOf(key, infer_type)[1]>>

\* two documents of which one holds "b": "b" has one entry, "a" has two
C12_Witness ==
    /\ pc = "returned"
    /\ Len(ConcreteDocs) = 2
    /\ Len(Holding("b")) = 1 /\ Len(Holding("a")) = 2
    /\ Lookup(data, "b") = VersionsV(<<NewNode("Dataset", DatasetDict)>>)
    /\ Len(Lookup(data, "a").v) = 2

\* the classification of a top-level value that C11 words
Classified(node) ==
    CASE IsDict(node) -> ByPriority(node, <<"Experiment", "Algorithm", "Dataset">>)
      [] IsList(node) -> ByPriority(node, <<"Experiments", "Algorithms", "Datasets">>)
      [] OTHER -> node

\* the keys of all concrete documents
AllKeys == UNION { Keys(ConcreteDocs[i]) : i \in 1..Len(ConcreteDocs) }

\* apply_transformations returns documents that are all mappings
C13_Scope ==
    /\ pc \in {"returned", "failed"}
    /\ SecondCall(input).pc = "done"
    /\ \A i \in 1..Len(ConcreteDocs) : IsDict(ConcreteDocs[i])

\* C13: transform_config maps every top-level key to the Versions of the
\* key's classified values, one per concrete document that holds the key,
\* in document order; without $each every Versions has length 1.
C13_VersionsOfClassified ==
    C13_Scope =>
        /\ pc = "returned"
        /\ Keys(data) = AllKeys
        /\ \A key \in AllKeys :
               Lookup(data, key) = VersionsV(ValuesOf(key, Classified))
        /\ ~HasKeyDeep(input, {"$each"}) =>
               \A key \in AllKeys : Len(Lookup(data, key).v) = 1

----------------------------------------------------------------------------
(* utils.py: update_nested_dict called on its own.  input is the call, doc
   the object passed as `data` as it is now, data the value returned.      *)

\* the object passed as `data` after the call: lines 74 and 76 assign into
\* it and line 74 passes its nested dicts on, so that a dict is the very
\* object returned; line 78 binds the local name only
update_nested_dict_argument(tree, to_update) ==
    IF IsDict(tree) THEN update_nested_dict(tree, to_update) ELSE tree

UpdateLeaves == {IntV(1), IntV(2), DictV(<<>>), ListV(<<IntV(1)>>)}

UpdateFlat ==
    UpdateLeaves
    \cup {D1(k, v) : k \in {"a", "b"}, v \in UpdateLeaves}

\* the values of a key of base or of the overlay
UpdateValues ==
    UpdateFlat \cup {D1("a", D1("b", v)) : v \in {IntV(1), DictV(<<>>)}}

UpdateDicts ==
    {DictV(<<>>)}
    \cup {D1("d", v) : v \in UpdateValues}
    \cup {D2("d", v, "e", w) : v \in UpdateFlat, w \in {IntV(3), D1("a", IntV(4))}}

InitUtils ==
    /\ input \in {Call("update_nested_dict", base, overlay) :
                     base \in UpdateDicts \cup {IntV(1)}, overlay \in UpdateDicts}
    /\ doc = input.v[1]
    /\ data = NoneV
    /\ pc = "call"
    /\ err = ""

CallUpdateNestedDict ==
    /\ pc = "call"
    /\ pc' = "returned"
    /\ data' = update_nested_dict(input.v[1], input.v[2])
    /\ doc' = update_nested_dict_argument(input.v[1], input.v[2])
    /\ UNCHANGED <<input, err>>

NextUtils == CallUpdateNestedDict

SpecUtils == InitUtils /\ [][NextUtils]_vars

\* C26: update_nested_dict(base, overlay) is base with the overlay laid over
\* it: a key of both holds the recursive merge when both values are mappings
\* and the overlay's value otherwise, also an empty mapping over a scalar;
\* a key of base alone keeps its value.
C26_OverlayWins ==
    (pc = "returned" /\ IsDict(input.v[1])) =>
        TreeEq(data, DeepMerge(input.v[1], input.v[2]))

\* C27: update_nested_dict leaves the object passed as base as it was.
C27_BaseUnchanged ==
    pc = "returned" => TreeEq(doc, input.v[1])

----------------------------------------------------------------------------
(* recursive_apply_dict with a Versions from fn for every combination *)

\* the document is {a: {$each: items}} and an item is a $each node of its own
C23_Scope ==
    /\ IsDict(input) /\ Len(input.v) = 1 /\ input.v[1].k = "a"
    /\ input.v[1].n \in {D1("$each", ListV(q)) :
                           q \in SeqsUpTo(PlainEachNodes \cup {IntV(3)}, MaxItems)}
    /\ \E i \in 1..Len(input.v[1].n.v[1].n.v) : IsDict(input.v[1].n.v[1].n.v[i])

\* what a position of the item list can be in a concrete combination
C23_Choices(item) == IF IsDict(item) THEN Lookup(item, "$each").v ELSE <<item>>

\* the concrete item lists, in combination order: apply_each turns each into
\* the Versions of its items
C23_Combinations ==
    LET items == input.v[1].n.v[1].n.v
    IN Product([i \in 1..Len(items) |-> C23_Choices(items[i])])

\* C23: when fn returns a Versions for every concrete combination of a
\* mapping with a multi-valued child, recursive_apply returns the Versions
\* of their entries concatenated in combination order, whatever their
\* lengths: a $each with a nested $each beside other items gives one
\* document per entry.
C23_Concatenated ==
    (C23_Scope /\ Finished) =>
        /\ pc = "done"
        /\ data = ListV([i \in 1..Len(Flatten(C23_Combinations)) |->
                            D1("a", Flatten(C23_Combinations)[i])])

\* C25: every Versions built during expansion is non-empty, also for a
\* $each with an empty item list, so apply_transformations returns at least
\* one document whenever it returns.
C25_AtLeastOneDocument ==
    pc = "done" => Len(data.v) >= 1

----------------------------------------------------------------------------
(* recurse_config.py: recursive_apply called on its own, on trees that hold
   Versions objects as the tests' trees do.  input is the call: the fn and
   the node.                                                               *)

ApplyVersions ==
    {VersionsV(q) : q \in SeqsUpTo({IntV(1), IntV(2)}, MaxItems)}

ApplyNodes ==
    {D1("x", v) : v \in ApplyVersions \cup {IntV(1), IntV(2)}}
    \cup {D2("x", v, "k", IntV(5)) : v \in ApplyVersions}
    \cup {D2("x", v, "y", w) : v \in ApplyVersions, w \in ApplyVersions}

ApplyTrees ==
    ApplyNodes
    \cup {D1("a", n) : n \in ApplyNodes}
    \cup {ListV(<<n, IntV(0)>>) : n \in ApplyNodes}
    \cup {D1("k", ListV(<<v, IntV(0), w>>)) : v \in ApplyVersions, w \in ApplyVersions}
    \cup {IntV(1), ListV(<<>>), DictV(<<>>)}

ApplyFns == {"identity", "versions_of_one"}

InitApply ==
    /\ input \in {Call(fn, tree, NoneV) : fn \in ApplyFns, tree \in ApplyTrees}
    /\ doc = input.v[1]
    /\ data = NoneV
    /\ pc = "call"
    /\ err = ""

CallRecursiveApply ==
    /\ pc = "call"
    /\ LET Then(r) == Return("returned", r.res)
       IN Then(recursive_apply(input.v[1], input.t, NoneV, NoAlias, MaxDepth))

NextApply == CallRecursiveApply

SpecApply == InitApply /\ [][NextApply]_vars

\* a single Versions at the top whose entries hold none, or no Versions
VersionsLifted(value) ==
    IF IsVersions(value)
    THEN \A i \in 1..Len(value.v) : ~HasVersions(value.v[i])
    ELSE ~HasVersions(value)

\* C24: what recursive_apply returns is free of Versions or one top-level
\* Versions whose entries are free of Versions, for every tree and every
\* fn, also one that returns a Versions for some combinations only.
C24_NoNestedVersions ==
    (pc = "returned" /\ err = "") => VersionsLifted(data)

----------------------------------------------------------------------------
(* runtool.py: transform_config followed by config.algorithm * config.dataset,
   the product the experiments of a configuration are made with            *)

AlgorithmVariants ==
    {D2("image", StrV(<<image>>), "instance", StrV(<<"n">>)) : image \in {"i", "x", "y"}}

DatasetVariants ==
    {D1("path", D1("train", StrV(<<file>>))) : file \in {"i", "x", "y"}}

\* one variant, or a $each of distinct variants
Enumerations(variants) ==
    variants
    \cup {D1("$each", ListV(q)) :
             q \in {s \in SeqsUpTo(variants, MaxItems) :
                       /\ s # <<>>
                       /\ \A i \in 1..Len(s) : \A j \in 1..Len(s) : s[i] = s[j] => i = j}}

InitExperiments ==
    /\ input \in {D2("algorithm", a, "dataset", d) :
                     a \in Enumerations(AlgorithmVariants),
                     d \in Enumerations(DatasetVariants)}
    /\ doc = input
    /\ data = input
    /\ pc = "from"
    /\ err = ""

\* config.algorithm * config.dataset
MultiplyConfig ==
    /\ pc = "returned"
    /\ LET Bind(r) ==
               IF IsErr(r) THEN Fail(r.v)
               ELSE /\ data' = r
                    /\ pc' = "multiplied"
                    /\ err' = err
       IN Bind(Versions__mul__(Lookup(data, "algorithm"), Lookup(data, "dataset")))
    /\ UNCHANGED <<input, doc>>

NextExperiments ==
    ResolveFrom \/ ResolveEval \/ ResolveEach \/ ResolveRef \/ Aggregate
    \/ MultiplyConfig

SpecExperiments == InitExperiments /\ [][NextExperiments]_vars

\* the variants a key of the configuration enumerates
VariantsOf(key) ==
    IF HasKey(Lookup(input, key), "$each")
    THEN Lookup(Lookup(input, key), "$each").v
    ELSE <<Lookup(input, key)>>

\* the experiment of an algorithm variant and a dataset variant is in the
\* product, once
C28_Once(a, d) ==
    Cardinality({i \in 1..Len(data.v) :
                    /\ TreeEq(DictV(Get(data.v[i], "algorithm", NoneV).v), a)
                    /\ TreeEq(DictV(Get(data.v[i], "dataset", NoneV).v), d)}) = 1

\* C28: for m algorithm variants and n dataset variants enumerated with
\* $each, config.algorithm * config.dataset holds every pair of an algorithm
\* variant and a dataset variant exactly once: m*n experiments.
C28_EveryPairOnce ==
    (/\ HasKey(Lookup(input, "algorithm"), "$each")
     /\ HasKey(Lookup(input, "dataset"), "$each")
     /\ pc \in {"multiplied", "failed"}) =>
        /\ pc = "multiplied"
        /\ Len(data.v) = Len(VariantsOf("algorithm")) * Len(VariantsOf("dataset"))
        /\ \A i \in 1..Len(VariantsOf("algorithm")) :
             \A j \in 1..Len(VariantsOf("dataset")) :
                C28_Once(VariantsOf("algorithm")[i], VariantsOf("dataset")[j])

----------------------------------------------------------------------------
(* Chains of $ref and of $from *)

RECURSIVE DirectiveSites(_, _, _)
\* the nodes of v that hold the directive: where they are, what they name
DirectiveSites(v, at, directive) ==
    CASE IsDict(v) ->
           (IF HasKey(v, directive)
            THEN {[p |-> at, target |-> Lookup(v, directive)]} ELSE {})
           \cup UNION {DirectiveSites(v.v[i].n, Append(at, v.v[i].k), directive) :
                          i \in 1..Len(v.v)}
      [] IsList(v) ->
           UNION {DirectiveSites(v.v[i], Append(at, IndexKey(i - 1)), directive) :
                     i \in 1..Len(v.v)}
      [] OTHER -> {}

\* resolving s resolves t: t is at or below the path that s names
LeadsTo(s, t) == s.target.t = "str" /\ IsPrefix(s.target.v, t.p)

RECURSIVE ReachedFrom(_, _, _)
\* the sites that resolving the sites of `from` resolves, in n steps or less
ReachedFrom(from, sites, n) ==
    IF n = 0 THEN from
    ELSE ReachedFrom(from \cup {t \in sites : \E s \in from : LeadsTo(s, t)},
                     sites, n - 1)

\* a chain of the directive leads back to the site it started at
Cyclic(tree, directive) ==
    LET sites == DirectiveSites(tree, <<>>, directive)
    IN \E s \in sites :
          s \in ReachedFrom({t \in sites : LeadsTo(s, t)}, sites, Cardinality(sites))

\* the directives of the document are $from and $ref only
C30_Scope == ~HasKeyDeep(input, {"$each", "$eval"})

\* a $from chain of the document leads back to itself
C30_FromCycle == Cyclic(input, "$from")

\* a $ref chain leads back to itself in the document the references are
\* resolved in, which is the document with its $from nodes resolved
C30_RefCycle ==
    /\ ~IsErr(FromPass(input).res)
    /\ Cyclic(FromPass(input).res, "$ref")

----------------------------------------------------------------------------
(* dispatcher.py: JobDispatcher.dispatch and start_training_job.
   input is the call: the jobs and max_retries.  data holds the locals of
   dispatch and of the running start_training_job: the queues, the
   responses, the queue the for loop is at, the job popped, the attempt and
   the seconds waited between the attempts.  doc is the SageMaker client and
   the clock as dispatch has used them: the calls of create_training_job per
   job, how many of them returned without an error, the outcome of the
   last call ("" or the code of the error), the pauses of 60 seconds.  pc is the line dispatch is at: "queue" (while queue:),
   "create" (the call of create_training_job), "returned" or "raised".     *)

\* the most jobs of a dispatch run
MaxJobs == 2

\* the largest max_retries of a run
MaxRetries == 2

\* dispatch(self, jobs, max_retries=10)
DefaultMaxRetries == 10

\* the calls and pauses of a run are counted up to this number
MaxCalls == 2

JobNames == <<"j1", "j2", "j3", "j4">>

InstanceTypes == {"m", "p"}

Job(i, type) == [name |-> JobNames[i], type |-> type]

JobLists ==
    {[i \in 1..Len(types) |-> Job(i, types[i])] :
        types \in SeqsUpTo(InstanceTypes, MaxJobs)}

JobNumber(name) == CHOOSE i \in 1..Len(JobNames) : JobNames[i] = name

\* what create_training_job can return
RESPONSE == D1("TrainingJobArn", StrV(<<"x">>))

Responses == {RESPONSE, DictV(<<>>), NoneV}

\* the error codes of a ClientError
ErrorCodes == {"ResourceLimitExceeded", "ThrottlingException", "ValidationException"}

\* bool(response)
Truthy(response) ==
    CASE response.t = "none" -> FALSE
      [] IsDict(response) -> response.v # <<>>
      [] OTHER -> TRUE

\* a test of the response that takes every returned value as a success
ReturnedAtAll(response) == TRUE

\* line 143 of dispatch: if response:
Submitted(response) == Truthy(response)

RECURSIVE TypesInOrder(_, _)
\* the instance types of the jobs in the order they first appear
TypesInOrder(jobs, seen) ==
    IF jobs = <<>> THEN seen
    ELSE TypesInOrder(Tail(jobs),
                      IF \E i \in 1..Len(seen) : seen[i] = Head(jobs).type THEN seen
                      ELSE Append(seen, Head(jobs).type))

\* list(groupby(lambda job: job["ResourceConfig"]["InstanceType"], jobs).values())
group_by_instance_type(jobs) ==
    LET types == TypesInOrder(jobs, <<>>)
    IN [k \in 1..Len(types) |-> SelectSeq(jobs, LAMBDA job : job.type = types[k])]

\* a retry after one attempt more than max_retries allows
RetriesOnceMore(failure_reason, attempt, max_retries) ==
    failure_reason = "ThrottlingException" /\ attempt <= max_retries

\* lines 97-100 of start_training_job: the error is a throttling and the
\* attempts are not used up
Retries(failure_reason, attempt, max_retries) ==
    failure_reason = "ThrottlingException" /\ attempt < max_retries

\* a counter that stops at MaxCalls
Counted(n) == IF n < MaxCalls THEN n + 1 ELSE n

max_retries == input.v[2].v

InitDispatch ==
    /\ input \in {Call("dispatch", ListV(jobs), IntV(n)) :
                     jobs \in JobLists, n \in 1..MaxRetries \cup {DefaultMaxRetries}}
    /\ doc = [t |-> "client",
              calls |-> [i \in 1..Len(input.v[1].v) |-> 0],
              accepted |-> [i \in 1..Len(input.v[1].v) |-> 0],
              last |-> "",
              pauses |-> 0]
    /\ data = [t |-> "dispatch",
               queues |-> group_by_instance_type(input.v[1].v),
               responses |-> DictV(<<>>),
               q |-> 1,
               run |-> NoneV,
               attempt |-> 0,
               waits |-> <<>>]
    /\ pc = "queue"
    /\ err = ""

\* the client is called for the job at hand; code is "" when it returns
Called(code) ==
    LET i == JobNumber(data.run.name)
    IN doc' = [doc EXCEPT !.calls[i] = Counted(@),
                          !.accepted[i] = IF code = "" THEN Counted(@) ELSE @,
                          !.last = code]

\* queue.append(run); break
PutBack ==
    data' = [data EXCEPT !.queues[data.q] = Append(@, data.run), !.q = @ + 1]

\* while queue: run = queue.pop(), and start_training_job begins
Pop ==
    /\ pc = "queue"
    /\ data.q <= Len(data.queues)
    /\ data.queues[data.q] # <<>>
    /\ data' = [data EXCEPT
                  !.run = data.queues[data.q][Len(data.queues[data.q])],
                  !.queues[data.q] = SubSeq(@, 1, Len(@) - 1),
                  !.attempt = 1,
                  !.waits = <<>>]
    /\ pc' = "create"
    /\ UNCHANGED <<input, doc, err>>

\* while queue: is over, the for loop takes the next queue
NextQueue ==
    /\ pc = "queue"
    /\ data.q <= Len(data.queues)
    /\ data.queues[data.q] = <<>>
    /\ data' = [data EXCEPT !.q = @ + 1]
    /\ UNCHANGED <<input, doc, pc, err>>

\* if any(queues): self.timeout_with_printer(60, ...), and the next pass
Pause ==
    /\ pc = "queue"
    /\ data.q > Len(data.queues)
    /\ \E k \in 1..Len(data.queues) : data.queues[k] # <<>>
    /\ doc' = [doc EXCEPT !.pauses = Counted(@)]
    /\ data' = [data EXCEPT !.q = 1]
    /\ UNCHANGED <<input, pc, err>>

\* else: break, return responses
ReturnResponses ==
    /\ pc = "queue"
    /\ data.q > Len(data.queues)
    /\ \A k \in 1..Len(data.queues) : data.queues[k] = <<>>
    /\ pc' = "returned"
    /\ UNCHANGED <<input, doc, data, err>>

\* create_training_job returns response
Accept(response) ==
    /\ pc = "create"
    /\ Called("")
    /\ IF Submitted(response)
       THEN data' = [data EXCEPT
                       !.responses = DictSet(@, data.run.name, response)]
       ELSE PutBack
    /\ pc' = "queue"
    /\ UNCHANGED <<input, err>>

\* create_training_job raises a ClientError with the code: the except block
\* of start_training_job, and what dispatch does with the None it returns
ClientError(code) ==
    /\ pc = "create"
    /\ Called(code)
    /\ IF code = "ResourceLimitExceeded"
       THEN /\ PutBack
            /\ pc' = "queue"
            /\ err' = err
       ELSE IF Retries(code, data.attempt, max_retries)
       THEN /\ data' = [data EXCEPT !.waits = Append(@, 2 ^ data.attempt),
                                    !.attempt = @ + 1]
            /\ UNCHANGED <<pc, err>>
       ELSE /\ pc' = "raised"
            /\ err' = code
            /\ UNCHANGED data
    /\ UNCHANGED input

NextDispatch ==
    \/ Pop
    \/ NextQueue
    \/ Pause
    \/ ReturnResponses
    \/ \E response \in Responses : Accept(response)
    \/ \E code \in ErrorCodes : ClientError(code)

SpecDispatch == InitDispatch /\ [][NextDispatch]_vars

\* dispatch keeps running, and a job that is busy is accepted in the end
SpecDispatchFair ==
    /\ SpecDispatch
    /\ WF_vars(NextDispatch)
    /\ SF_vars(\E response \in Responses : Accept(response))

----------------------------------------------------------------------------
(* C21, C29, C22 *)

\* C21: start_training_job tries a throttled job again after 2^attempt
\* seconds and never more than max_retries times: when every attempt is
\* throttled the ClientError leaves dispatch at attempt max_retries; a
\* ClientError with another code leaves it at the attempt it occurs in.
C21_RetriesUpToLimit ==
    /\ pc = "create" => data.attempt \in 1..max_retries
    /\ pc \in {"create", "raised"} =>
          data.waits = [k \in 1..(data.attempt - 1) |-> 2 ^ k]
    /\ pc = "raised" =>
          /\ err = doc.last
          /\ err = "ThrottlingException" => data.attempt = max_retries
    /\ doc.last = "ValidationException" => pc = "raised"
    /\ (doc.last = "ThrottlingException" /\ data.attempt = max_retries
           /\ pc # "create") => pc = "raised"

\* ten throttled attempts with the default max_retries: waits of 2, 4, ...,
\* 512 seconds, then the error
C21_Witness ==
    /\ pc = "raised"
    /\ err = "ThrottlingException"
    /\ max_retries = DefaultMaxRetries
    /\ data.waits = <<2, 4, 8, 16, 32, 64, 128, 256, 512>>
    /\ doc.calls = <<MaxCalls>>

\* C29: a job whose create_training_job call returned without an error is
\* not submitted again: no job is accepted more than once, whatever the
\* client returns.
C29_AcceptedOnce ==
    \A i \in 1..Len(doc.accepted) : doc.accepted[i] <= 1

\* dispatch has returned the responses of all jobs, its queues empty
C22_AllSubmitted ==
    /\ pc = "returned"
    /\ \A k \in 1..Len(data.queues) : data.queues[k] = <<>>
    /\ Keys(data.responses) = {input.v[1].v[i].name : i \in 1..Len(input.v[1].v)}

\* C22: a busy job goes back on its queue and dispatch goes on with the next
\* queue, pausing only after a pass that left a queue non-empty; when every
\* busy job is accepted in the end, dispatch returns the responses of all
\* jobs with its queues empty, unless an error of the client ends it.
C22_BusyJobsAreSubmitted ==
    <>(pc = "raised" \/ C22_AllSubmitted)

====
